---- MODULE Spec2Model ----
(***************************************************************************)
(* A state-machine model of the flo event-log server: the producer         *)
(* manager, the consumer manager, the background disk readers, and the     *)
(* connection front-end that feeds the two manager inboxes.                *)
(*                                                                         *)
(* Spec       is the engine as the sources assemble it.                    *)
(* FanoutSpec adds the EventPersisted notification of spec section 4.F     *)
(*            step 5 (absent from ProducerManager::produce_event), so that *)
(*            the consumer manager's cache, broadcast and disk-reader      *)
(*            paths are exercised; every store succeeds in it.             *)
(***************************************************************************)
EXTENDS Integers, Sequences, FiniteSets, TLC

(***************************************************************************)
(* Bounds of the model.                                                    *)
(***************************************************************************)
MaxConns == 2
MaxProduce == 2
MaxStarts == 2
MaxLimit == 2
MaxPreloaded == 1
MaxStoreFailures == 1
MaxReadErrors == 1
MaxDisconnects == 1
\* Cache::new(100_000, 64 MB) scaled down so that eviction happens: an event
\* may be larger than the byte budget (data may be up to 2^32 bytes).
MaxCachedEvents == 1
MaxCacheBytes == 1
\* max_events of the index, above what the bounded runs store.
MaxIndexEntries == 8

(***************************************************************************)
(* Program constants and input sets.                                       *)
(***************************************************************************)
actor_id == 1

Conns == 1..MaxConns
Limits == {MaxLimit}
Namespaces == {"/foo/bar"}
\* event bodies: byte strings of length 1 and 2
DataValues == {<<7>>, <<8, 9>>}

NoClient == [state |-> "Absent"]
NoStart == [start |-> "none"]
NoStream == [state |-> "Absent"]
Unused == [state |-> "Unused"]

(***************************************************************************)
(* FloEventId and its order (counter first, then actor).                   *)
(***************************************************************************)
FloEventId(actor, counter) == [actor |-> actor, event_counter |-> counter]

Zero == FloEventId(0, 0)

IdLess(a, b) ==
    IF a.event_counter = b.event_counter
    THEN a.actor < b.actor
    ELSE a.event_counter < b.event_counter

IdLeq(a, b) == a = b \/ IdLess(a, b)

OwnedFloEvent(id, namespace, data) ==
    [id |-> id, namespace |-> namespace, data |-> data]

(***************************************************************************)
(* The event index: a map EventId -> offset, bounded, evicting the         *)
(* smallest id.  An offset is the position of the record in the log.       *)
(***************************************************************************)
IndexMin(ix) == CHOOSE e \in ix : \A f \in ix : IdLeq(e.event_id, f.event_id)

IndexAdd(ix, id, offset) ==
    LET added == {e \in ix : e.event_id # id}
                     \cup {[event_id |-> id, offset |-> offset]}
    IN  IF Cardinality(added) > MaxIndexEntries
        THEN added \ {IndexMin(added)}
        ELSE added

IndexHasNext(ix, after) == \E e \in ix : IdLess(after, e.event_id)

IndexNextEntry(ix, after) ==
    LET later == {e \in ix : IdLess(after, e.event_id)}
    IN  IndexMin(later)

IndexGreatest(ix) ==
    IF ix = {} THEN Zero
    ELSE (CHOOSE e \in ix : \A f \in ix : IdLeq(f.event_id, e.event_id)).event_id

(***************************************************************************)
(* The log as a previous run left it: counters 1..n of the local actor.    *)
(***************************************************************************)
PreloadedLog(n) ==
    [i \in 1..n |-> OwnedFloEvent(FloEventId(actor_id, i), "/foo/bar", <<7>>)]

RecoveredIndex(lg) ==
    {[event_id |-> lg[i].id, offset |-> i] : i \in 1..Len(lg)}

RecoveredCounter(lg) ==
    IF Len(lg) = 0 THEN 0 ELSE lg[Len(lg)].id.event_counter

(***************************************************************************)
(* The hot cache: FIFO bounded by entry count and by bytes of data.        *)
(***************************************************************************)
RECURSIVE CacheBytes(_)
CacheBytes(es) ==
    IF es = <<>> THEN 0 ELSE Len(Head(es).data) + CacheBytes(Tail(es))

\* an eviction that removes the newest event first
RECURSIVE CacheEvictNewest(_)
CacheEvictNewest(c) ==
    IF Len(c.entries) > MaxCachedEvents \/ CacheBytes(c.entries) > MaxCacheBytes
    THEN CacheEvictNewest([entries |-> SubSeq(c.entries, 1, Len(c.entries) - 1),
                           last_evicted_id |-> c.entries[Len(c.entries)].id])
    ELSE c

RECURSIVE CacheEvict(_)
CacheEvict(c) ==
    IF Len(c.entries) > MaxCachedEvents \/ CacheBytes(c.entries) > MaxCacheBytes
    THEN CacheEvict([entries |-> Tail(c.entries),
                     last_evicted_id |-> Head(c.entries).id])
    ELSE c

\* an insert that keeps no record of what earlier inserts evicted
CacheInsertForgetsEvicted(c, event) ==
    CacheEvict([entries |-> Append(c.entries, event),
                last_evicted_id |-> Zero])

CacheInsert(c, event) ==
    CacheEvict([entries |-> Append(c.entries, event),
                last_evicted_id |-> c.last_evicted_id])

SeqTake(s, n) == IF Len(s) <= n THEN s ELSE SubSeq(s, 1, n)

CacheRange(c, start, limit) ==
    SeqTake(SelectSeq(c.entries, LAMBDA e : IdLess(start, e.id)), limit)

VARIABLES
    next_connection_id,   \* api::next_connection_id
    open,                 \* connections whose outbound receiver is alive
    outbound,             \* per connection: the ServerMessages enqueued so far
    prodInbox,            \* producer_rx
    consInbox,            \* consumer_rx
    highest_event_id,     \* ProducerManager.highest_event_id
    prodClients,          \* ProducerManager.clients
    log,                  \* the records of the events file
    index,                \* the event index shared by writer and reader
    consumers,            \* ConsumerManager.consumers
    cache,                \* ConsumerManager.cache
    greatest_event_id,    \* ConsumerManager.greatest_event_id
    consAlive,            \* the consumer manager thread has not panicked
    readers,              \* the running disk-reader threads
    produces,             \* history: every produce_event call and its outcome
    forwarded,            \* how many stored events have been announced
    preloaded,            \* number of events the log held at startup
    first_start,          \* history: position and cache.last_evicted_id at each
                          \* connection's first start_consuming
    nProduce, startsBy, nDisconnects, storeFailures, readErrors,
    sent,                 \* history: the bytes each client writes to its socket
    nread,                \* how many of them the server's reads have returned
    streams,              \* the ClientMessageStream of each connection's task
    decoded,              \* history: the items each stream's poll has yielded
    stream_end,           \* how each connection's stream has ended, if it has
    parse_failed,         \* history: parse_any answered Error on the connection
    cmp_args,             \* the event ids handed to cmp and partial_cmp
    cmp_out,              \* what cmp and partial_cmp answered for them
    id_map,               \* a version map: HashMap<ActorId, EventCounter>
    map_call,             \* history: the last call on the map, the map before it and its answer
    file,                 \* the bytes of the events file
    written,              \* history: the events appended to the file and the offsets of their records
    iter,                 \* the FSEventIter over the file
    iter_opened,          \* history: the offset and the limit the iterator was created with
    iter_out,             \* history: what next answered, call by call
    length_check,         \* history: the two lengths read_event compared last
    file_errors,          \* how many reads of the file have failed
    store_file,           \* the events file of the store: the bytes each store call wrote
    fs_store,             \* the FileSystemEventStore, once created
    store_out,            \* history: the last call on the store, its argument and its answer
    store_hist,           \* history: the events stored, and the counts of restarts and failed writes
    msg_writer,           \* the MessageWriter and the message it borrows
    dest,                 \* the bytes the destination has received
    writer_hist           \* history: the write calls made, their answers and the failures

vars == <<next_connection_id, open, outbound, prodInbox, consInbox,
          highest_event_id, prodClients, log, index, consumers, cache,
          greatest_event_id, consAlive, readers, produces, forwarded,
          preloaded, first_start, nProduce, startsBy, nDisconnects, storeFailures, readErrors,
          sent, nread, streams, decoded, stream_end, parse_failed,
          cmp_args, cmp_out, id_map, map_call, file, written, iter,
          iter_opened, iter_out, length_check, file_errors, store_file,
          fs_store, store_out, store_hist, msg_writer, dest, writer_hist>>

wireVars == <<sent, nread, streams, decoded, stream_end, parse_failed>>
\* the state of the library-level specifications
eventIdVars == <<cmp_args, cmp_out>>
idMapVars == <<id_map, map_call>>
eventsFileVars == <<file, written, iter, iter_opened, iter_out, length_check, file_errors>>
fileStoreVars == <<store_file, fs_store, store_out, store_hist>>
messageWriterVars == <<msg_writer, dest, writer_hist>>
libVars == <<eventIdVars, idMapVars, eventsFileVars, fileStoreVars, messageWriterVars>>
envVars == <<next_connection_id, open, nProduce, startsBy, nDisconnects, preloaded,
             wireVars, libVars>>
prodVars == <<highest_event_id, prodClients, log, index, produces, storeFailures>>
consVars == <<consumers, cache, greatest_event_id, consAlive, first_start>>
readVars == <<readers, readErrors>>

\* what the specification of each library leaves as it is
serverVars == <<next_connection_id, open, outbound, prodInbox, consInbox, forwarded,
                nProduce, startsBy, nDisconnects, preloaded,
                prodVars, consVars, readVars, wireVars>>
eventIdOthers == <<serverVars, idMapVars, eventsFileVars, fileStoreVars,
    messageWriterVars>>
idMapOthers == <<serverVars, eventIdVars, eventsFileVars, fileStoreVars,
    messageWriterVars>>
eventsFileOthers == <<serverVars, eventIdVars, idMapVars, fileStoreVars,
    messageWriterVars>>
fileStoreOthers == <<serverVars, eventIdVars, idMapVars, eventsFileVars,
    messageWriterVars>>
messageWriterOthers == <<serverVars, eventIdVars, idMapVars, eventsFileVars,
    fileStoreVars>>

connected == 1..(next_connection_id - 1)

RECURSIVE SumOver(_, _)
SumOver(f, S) ==
    IF S = {} THEN 0
    ELSE LET x == CHOOSE y \in S : TRUE IN f[x] + SumOver(f, S \ {x})

TotalStarts == SumOver(startsBy, Conns)

(***************************************************************************)
(* engine::run: recover the store, start both managers.                    *)
(***************************************************************************)
EngineInit ==
    /\ preloaded \in 0..MaxPreloaded
    /\ log = PreloadedLog(preloaded)
    /\ index = RecoveredIndex(log)
    /\ highest_event_id = RecoveredCounter(log)
    /\ greatest_event_id = IndexGreatest(index)
    /\ next_connection_id = 1
    /\ open = {}
    /\ outbound = [c \in Conns |-> <<>>]
    /\ prodInbox = <<>>
    /\ consInbox = <<>>
    /\ prodClients = {}
    /\ consumers = [c \in Conns |-> NoClient]
    /\ cache = [entries |-> <<>>, last_evicted_id |-> Zero]
    /\ consAlive = TRUE
    /\ readers = <<>>
    /\ produces = <<>>
    /\ forwarded = 0
    /\ nProduce = 0
    /\ startsBy = [c \in Conns |-> 0]
    /\ first_start = [c \in Conns |-> NoStart]
    /\ nDisconnects = 0
    /\ storeFailures = 0
    /\ readErrors = 0
    /\ sent = [c \in Conns |-> <<>>]
    /\ nread = [c \in Conns |-> 0]
    /\ streams = [c \in Conns |-> NoStream]
    /\ decoded = [c \in Conns |-> <<>>]
    /\ stream_end = [c \in Conns |-> "running"]
    /\ parse_failed = [c \in Conns |-> FALSE]

\* the library-level state is not in use in the server's specifications
eventIdIdle == cmp_args = Unused /\ cmp_out = Unused
idMapIdle == id_map = Unused /\ map_call = Unused
eventsFileIdle == file = Unused /\ written = Unused /\ iter = Unused /\ iter_opened = Unused /\ iter_out = Unused /\ length_check = Unused /\ file_errors = Unused
fileStoreIdle == store_file = Unused /\ fs_store = Unused /\ store_out = Unused /\ store_hist = Unused
messageWriterIdle == msg_writer = Unused /\ dest = Unused /\ writer_hist = Unused
eventIdOthersIdle == idMapIdle /\ eventsFileIdle /\ fileStoreIdle /\
    messageWriterIdle
idMapOthersIdle == eventIdIdle /\ eventsFileIdle /\ fileStoreIdle /\
    messageWriterIdle
eventsFileOthersIdle == eventIdIdle /\ idMapIdle /\ fileStoreIdle /\
    messageWriterIdle
fileStoreOthersIdle == eventIdIdle /\ idMapIdle /\ eventsFileIdle /\
    messageWriterIdle
messageWriterOthersIdle == eventIdIdle /\ idMapIdle /\ eventsFileIdle /\
    fileStoreIdle

LibIdle ==
    /\ eventIdIdle
    /\ idMapIdle
    /\ eventsFileIdle
    /\ fileStoreIdle
    /\ messageWriterIdle

Init == EngineInit /\ LibIdle

(***************************************************************************)
(* Connection front-end and dispatcher.                                    *)
(***************************************************************************)
ClientConnect(c) == [type |-> "ClientConnect", connection_id |-> c]

\* a front-end that starts the connection's stream without announcing it
AcceptWithoutClientConnect ==
    /\ next_connection_id <= MaxConns
    /\ next_connection_id' = next_connection_id + 1
    /\ open' = open \cup {next_connection_id}
    /\ UNCHANGED <<outbound, prodInbox, consInbox, nProduce, startsBy,
                   nDisconnects, preloaded, forwarded, wireVars, libVars>>
    /\ UNCHANGED <<prodVars, consVars, readVars>>

\* setup_message_streams: a new connection id, and ClientConnect to both
\* managers before anything decoded from the connection.
Accept ==
    /\ next_connection_id <= MaxConns
    /\ next_connection_id' = next_connection_id + 1
    /\ open' = open \cup {next_connection_id}
    /\ prodInbox' = Append(prodInbox, ClientConnect(next_connection_id))
    /\ consInbox' = Append(consInbox, ClientConnect(next_connection_id))
    /\ UNCHANGED <<outbound, nProduce, startsBy, nDisconnects, preloaded, forwarded, wireVars, libVars>>
    /\ UNCHANGED <<prodVars, consVars, readVars>>

\* A decoded FLO_PRO frame is routed to the producer manager.
ClientProduce(c, namespace, data) ==
    /\ c \in connected /\ c \in open
    /\ nProduce < MaxProduce
    /\ nProduce' = nProduce + 1
    /\ prodInbox' = Append(prodInbox,
            [type |-> "Produce", connection_id |-> c, op_id |-> nProduce + 1,
             namespace |-> namespace, event_data |-> data])
    /\ UNCHANGED <<next_connection_id, open, outbound, consInbox, startsBy,
                   nDisconnects, preloaded, forwarded, wireVars, libVars>>
    /\ UNCHANGED <<prodVars, consVars, readVars>>

\* A decoded FLO_CNS frame is routed to the consumer manager.
ClientStartConsuming(c, limit) ==
    /\ c \in connected /\ c \in open
    /\ TotalStarts < MaxStarts
    /\ startsBy' = [startsBy EXCEPT ![c] = @ + 1]
    /\ consInbox' = Append(consInbox,
            [type |-> "StartConsuming", connection_id |-> c, limit |-> limit])
    /\ UNCHANGED <<next_connection_id, open, outbound, prodInbox, nProduce,
                   nDisconnects, preloaded, forwarded, wireVars, libVars>>
    /\ UNCHANGED <<prodVars, consVars, readVars>>

\* The connection ends: its outbound receiver is dropped.
Disconnect(c) ==
    /\ c \in open
    /\ nDisconnects < MaxDisconnects
    /\ nDisconnects' = nDisconnects + 1
    /\ open' = open \ {c}
    /\ UNCHANGED <<next_connection_id, outbound, prodInbox, consInbox,
                   nProduce, startsBy, preloaded, forwarded, wireVars, libVars>>
    /\ UNCHANGED <<prodVars, consVars, readVars>>

(***************************************************************************)
(* Producer manager.                                                       *)
(***************************************************************************)
\* ProducerMap::send: an unknown client or a dropped receiver is an Err.
ProducerMapSend(out, c, message) ==
    IF c \in prodClients /\ c \in open
    THEN [out EXCEPT ![c] = Append(@, message)]
    ELSE out

AssignedEventId(highest) == FloEventId(actor_id, highest)

\* a producer that forgets to advance its counter
HighestAfterStoreStuck(highest) == highest

EventNamespace(requested) == "whatever"

HighestAfterStore(highest) == highest + 1

EventAck(op_id, event_id) ==
    [type |-> "EventAck", op_id |-> op_id, event_id |-> event_id]

ProduceRecord(m, event, stored) ==
    [connection_id |-> m.connection_id, op_id |-> m.op_id,
     namespace |-> m.namespace, event_data |-> m.event_data,
     event |-> event, stored |-> stored,
     \* the connections accepted, and those already consuming, at this call
     accepted |-> connected,
     consuming |-> {c \in Conns : consumers[c].state
                        \in {"ConsumingFromCache", "ConsumingFromDisk"}}]

ProducerClientConnect ==
    /\ prodInbox # <<>>
    /\ Head(prodInbox).type = "ClientConnect"
    /\ prodClients' = prodClients \cup {Head(prodInbox).connection_id}
    /\ prodInbox' = Tail(prodInbox)
    /\ UNCHANGED <<highest_event_id, log, index, produces, storeFailures>>
    /\ UNCHANGED <<envVars, consVars, readVars, outbound, consInbox, forwarded>>

\* produce_event when event_store.store returns Ok.
ProduceEventStored ==
    /\ prodInbox # <<>>
    /\ Head(prodInbox).type = "Produce"
    /\ LET m == Head(prodInbox)
           event_id == AssignedEventId(highest_event_id)
           owned_event == OwnedFloEvent(event_id, EventNamespace(m.namespace),
                                        m.event_data)
       IN  /\ log' = Append(log, owned_event)
           /\ index' = IndexAdd(index, event_id, Len(log) + 1)
           /\ highest_event_id' = HighestAfterStore(highest_event_id)
           /\ outbound' = ProducerMapSend(outbound, m.connection_id,
                                          EventAck(m.op_id, event_id))
           /\ produces' = Append(produces, ProduceRecord(m, owned_event, TRUE))
    /\ prodInbox' = Tail(prodInbox)
    /\ UNCHANGED <<prodClients, storeFailures>>
    /\ UNCHANGED <<envVars, consVars, readVars, consInbox, forwarded>>

\* produce_event when event_store.store returns Err: the closure of map is
\* skipped and the handler returns Ok(()).
ProduceEventStoreFails ==
    /\ prodInbox # <<>>
    /\ Head(prodInbox).type = "Produce"
    /\ storeFailures < MaxStoreFailures
    /\ storeFailures' = storeFailures + 1
    /\ LET m == Head(prodInbox)
           event_id == AssignedEventId(highest_event_id)
           owned_event == OwnedFloEvent(event_id, EventNamespace(m.namespace),
                                        m.event_data)
       IN  produces' = Append(produces, ProduceRecord(m, owned_event, FALSE))
    /\ prodInbox' = Tail(prodInbox)
    /\ UNCHANGED <<highest_event_id, prodClients, log, index>>
    /\ UNCHANGED <<envVars, consVars, readVars, outbound, consInbox, forwarded>>

(***************************************************************************)
(* Consumer-side client state.                                             *)
(***************************************************************************)
ClientFromConnect == [state |-> "NotConsuming", position |-> Zero, remaining |-> 0]

ConsumingState(kind, start, limit) ==
    [state |-> kind, position |-> start, remaining |-> limit]

\* Client::send of an Event: the position becomes the event's id.
ClientSent(cl, n, id) ==
    [cl EXCEPT !.position = id,
               !.remaining = IF cl.state = "NotConsuming" \/ @ < n THEN 0 ELSE @ - n]

IsAwaitingNewEvent(cl) == cl.state = "NotConsuming"

EventMessage(event) == [type |-> "Event", event |-> event]

EventMessages(evs) == [i \in 1..Len(evs) |-> EventMessage(evs[i])]

(***************************************************************************)
(* Disk readers: FSEventReader::load_range and the spawned thread.         *)
(***************************************************************************)
LoadRange(c, start, limit) ==
    IF IndexHasNext(index, start)
    THEN [connection_id |-> c, kind |-> "NonEmpty",
          offset |-> IndexNextEntry(index, start).offset,
          remaining |-> limit, limit |-> limit,
          sent_events |-> 0, last_sent_id |-> Zero]
    ELSE [connection_id |-> c, kind |-> "Empty", offset |-> 0,
          remaining |-> 0, limit |-> limit,
          sent_events |-> 0, last_sent_id |-> Zero]

RemoveAt(s, i) == SubSeq(s, 1, i - 1) \o SubSeq(s, i + 1, Len(s))

\* has_next_event / FSEventIter::next has a record to yield
ReaderHasNext(r) ==
    r.kind = "NonEmpty" /\ r.remaining > 0 /\ r.offset <= Len(log)

\* the message the thread sends when its loop ends
ReaderExit(r, inbox) ==
    IF r.sent_events < r.limit
    THEN Append(inbox, [type |-> "ContinueConsuming",
                        connection_id |-> r.connection_id,
                        event_id |-> r.last_sent_id,
                        limit |-> r.limit - r.sent_events])
    ELSE inbox

\* Ok(owned_event): send EventLoaded to the consumer manager
ReaderLoad(i) ==
    /\ i \in 1..Len(readers)
    /\ consAlive
    /\ ReaderHasNext(readers[i])
    /\ LET r == readers[i]
           event == log[r.offset]
       IN  /\ consInbox' = Append(consInbox,
                   [type |-> "EventLoaded", connection_id |-> r.connection_id,
                    event |-> event])
           /\ readers' = [readers EXCEPT ![i] =
                   [r EXCEPT !.offset = @ + 1, !.remaining = @ - 1,
                             !.sent_events = @ + 1, !.last_sent_id = event.id]]
    /\ UNCHANGED <<readErrors, outbound, prodInbox, forwarded>>
    /\ UNCHANGED <<envVars, prodVars, consVars>>

\* Err(err): the loop breaks
ReaderError(i) ==
    /\ i \in 1..Len(readers)
    /\ consAlive
    /\ ReaderHasNext(readers[i])
    /\ readErrors < MaxReadErrors
    /\ readErrors' = readErrors + 1
    /\ consInbox' = ReaderExit(readers[i], consInbox)
    /\ readers' = RemoveAt(readers, i)
    /\ UNCHANGED <<outbound, prodInbox, forwarded>>
    /\ UNCHANGED <<envVars, prodVars, consVars>>

\* the iterator returns None: limit reached, end of file, or empty iterator
ReaderFinish(i) ==
    /\ i \in 1..Len(readers)
    /\ ~ReaderHasNext(readers[i])
    /\ consAlive \/ readers[i].sent_events >= readers[i].limit
    /\ consInbox' = ReaderExit(readers[i], consInbox)
    /\ readers' = RemoveAt(readers, i)
    /\ UNCHANGED <<readErrors, outbound, prodInbox, forwarded>>
    /\ UNCHANGED <<envVars, prodVars, consVars>>

\* the consumer manager's receiver is gone: send(..).expect(..) panics
ReaderPanics(i) ==
    /\ i \in 1..Len(readers)
    /\ ~consAlive
    /\ ReaderHasNext(readers[i]) \/ readers[i].sent_events < readers[i].limit
    /\ readers' = RemoveAt(readers, i)
    /\ UNCHANGED <<readErrors, outbound, prodInbox, consInbox, forwarded>>
    /\ UNCHANGED <<envVars, prodVars, consVars>>

(***************************************************************************)
(* Consumer manager.                                                       *)
(***************************************************************************)
UpdateGreatest(id) ==
    IF IdLess(greatest_event_id, id) THEN id ELSE greatest_event_id

\* the branch condition of start_consuming
ServeFromDisk(start_id, last_evicted_id) == IdLess(start_id, last_evicted_id)

\* ConsumerManager::start_consuming
start_consuming(c, limit) ==
    IF consumers[c] = NoClient
    THEN UNCHANGED <<consumers, readers, outbound, consAlive>>
    ELSE LET start_id == consumers[c].position IN
         IF ServeFromDisk(start_id, cache.last_evicted_id)
         THEN /\ readers' = Append(readers, LoadRange(c, start_id, limit))
              /\ consumers' = [consumers EXCEPT ![c] =
                      ConsumingState("ConsumingFromDisk", start_id, limit)]
              /\ UNCHANGED <<outbound, consAlive>>
         ELSE LET evs == CacheRange(cache, start_id, limit)
                  consuming == ConsumingState("ConsumingFromCache", start_id, limit)
              IN  IF evs # <<>> /\ c \notin open
                  THEN \* client.send(..).unwrap() panics
                       /\ consAlive' = FALSE
                       /\ consumers' = [consumers EXCEPT ![c] = consuming]
                       /\ UNCHANGED <<readers, outbound>>
                  ELSE /\ outbound' = [outbound EXCEPT ![c] = @ \o EventMessages(evs)]
                       /\ consumers' = [consumers EXCEPT ![c] =
                              IF evs = <<>> THEN consuming
                              ELSE ClientSent(consuming, Len(evs), evs[Len(evs)].id)]
                       /\ UNCHANGED <<readers, consAlive>>

NoteStart(c, limit) ==
    IF consumers[c] = NoClient \/ first_start[c] # NoStart THEN first_start
    ELSE [first_start EXCEPT ![c] =
             [start |-> consumers[c].position,
              last_evicted_id |-> cache.last_evicted_id,
              limit |-> limit]]

ConsumerClientConnect ==
    /\ consAlive
    /\ consInbox # <<>>
    /\ Head(consInbox).type = "ClientConnect"
    /\ consumers' = [consumers EXCEPT ![Head(consInbox).connection_id] =
                        ClientFromConnect]
    /\ consInbox' = Tail(consInbox)
    /\ UNCHANGED <<cache, greatest_event_id, consAlive, first_start>>
    /\ UNCHANGED <<envVars, prodVars, readVars, outbound, prodInbox, forwarded>>

ProcessStartConsuming ==
    /\ consAlive
    /\ consInbox # <<>>
    /\ Head(consInbox).type = "StartConsuming"
    /\ start_consuming(Head(consInbox).connection_id, Head(consInbox).limit)
    /\ first_start' = NoteStart(Head(consInbox).connection_id, Head(consInbox).limit)
    /\ consInbox' = Tail(consInbox)
    /\ UNCHANGED <<cache, greatest_event_id, readErrors>>
    /\ UNCHANGED <<envVars, prodVars, prodInbox, forwarded>>

ProcessContinueConsuming ==
    /\ consAlive
    /\ consInbox # <<>>
    /\ Head(consInbox).type = "ContinueConsuming"
    /\ start_consuming(Head(consInbox).connection_id, Head(consInbox).limit)
    /\ first_start' = NoteStart(Head(consInbox).connection_id, Head(consInbox).limit)
    /\ consInbox' = Tail(consInbox)
    /\ UNCHANGED <<cache, greatest_event_id, readErrors>>
    /\ UNCHANGED <<envVars, prodVars, prodInbox, forwarded>>

\* ConsumerMap::send_event: an unknown client or a failed send is an Err
ProcessEventLoaded ==
    /\ consAlive
    /\ consInbox # <<>>
    /\ Head(consInbox).type = "EventLoaded"
    /\ LET c == Head(consInbox).connection_id
           event == Head(consInbox).event
       IN  /\ greatest_event_id' = UpdateGreatest(event.id)
           /\ IF consumers[c] # NoClient /\ c \in open
              THEN /\ outbound' = [outbound EXCEPT ![c] = Append(@, EventMessage(event))]
                   /\ consumers' = [consumers EXCEPT ![c] = ClientSent(@, 1, event.id)]
              ELSE UNCHANGED <<outbound, consumers>>
    /\ consInbox' = Tail(consInbox)
    /\ UNCHANGED <<cache, consAlive, first_start>>
    /\ UNCHANGED <<envVars, prodVars, readVars, prodInbox, forwarded>>

\* cache.insert, then ConsumerMap::send_event_to_all
ProcessEventPersisted ==
    /\ consAlive
    /\ consInbox # <<>>
    /\ Head(consInbox).type = "EventPersisted"
    /\ LET event == Head(consInbox).event
           awaiting == {c \in Conns : consumers[c] # NoClient
                                      /\ IsAwaitingNewEvent(consumers[c])}
           SendTo(served) ==
               /\ outbound' = [c \in Conns |->
                      IF c \in served THEN Append(outbound[c], EventMessage(event))
                      ELSE outbound[c]]
               /\ consumers' = [c \in Conns |->
                      IF c \in served THEN ClientSent(consumers[c], 1, event.id)
                      ELSE consumers[c]]
       IN  /\ greatest_event_id' = UpdateGreatest(event.id)
           /\ cache' = CacheInsert(cache, event)
           /\ UNCHANGED first_start
           /\ IF awaiting \subseteq open
              THEN SendTo(awaiting) /\ consAlive' = consAlive
              ELSE \* unwrap() panics at the first dropped receiver met
                   /\ consAlive' = FALSE
                   /\ \E served \in SUBSET (awaiting \cap open) : SendTo(served)
    /\ consInbox' = Tail(consInbox)
    /\ UNCHANGED <<envVars, prodVars, readVars, prodInbox, forwarded>>

(***************************************************************************)
(* The notification of spec 4.F step 5: each stored event is announced to  *)
(* the consumer manager, in the order of storing.                          *)
(***************************************************************************)
StoredProduces == SelectSeq(produces, LAMBDA p : p.stored)

ForwardEventPersisted ==
    /\ forwarded < Len(StoredProduces)
    /\ forwarded' = forwarded + 1
    /\ consInbox' = Append(consInbox,
            [type |-> "EventPersisted",
             connection_id |-> StoredProduces[forwarded + 1].connection_id,
             event |-> StoredProduces[forwarded + 1].event])
    /\ UNCHANGED <<envVars, prodVars, consVars, readVars, outbound, prodInbox>>

(***************************************************************************)
(* Specifications.                                                         *)
(***************************************************************************)
Next ==
    \/ Accept
    \/ \E c \in Conns, ns \in Namespaces, d \in DataValues : ClientProduce(c, ns, d)
    \/ \E c \in Conns, l \in Limits : ClientStartConsuming(c, l)
    \/ \E c \in Conns : Disconnect(c)
    \/ ProducerClientConnect
    \/ ProduceEventStored
    \/ ProduceEventStoreFails
    \/ ConsumerClientConnect
    \/ ProcessStartConsuming

Spec == Init /\ [][Next]_vars

FanoutNext ==
    \/ Accept
    \/ \E c \in Conns, ns \in Namespaces, d \in DataValues : ClientProduce(c, ns, d)
    \/ \E c \in Conns, l \in Limits : ClientStartConsuming(c, l)
    \/ \E c \in Conns : Disconnect(c)
    \/ ProducerClientConnect
    \/ ProduceEventStored
    \/ ConsumerClientConnect
    \/ ProcessStartConsuming
    \/ ForwardEventPersisted
    \/ ProcessEventPersisted
    \/ ProcessEventLoaded
    \/ ProcessContinueConsuming
    \/ \E i \in 1..MaxStarts : ReaderLoad(i)
    \/ \E i \in 1..MaxStarts : ReaderError(i)
    \/ \E i \in 1..MaxStarts : ReaderFinish(i)
    \/ \E i \in 1..MaxStarts : ReaderPanics(i)

FanoutSpec == Init /\ [][FanoutNext]_vars

(***************************************************************************)
(* What each connection has been sent.                                     *)
(***************************************************************************)
Acks(c) == SelectSeq(outbound[c], LAMBDA m : m.type = "EventAck")

Delivered(c) == SelectSeq(outbound[c], LAMBDA m : m.type = "Event")

CounterOf(p) == p.event.id.event_counter

(***************************************************************************)
(* C3: the events this producer manager stores carry strictly increasing   *)
(* counters in the order the produces were handled, so no two of them      *)
(* share an id; and the acknowledgements enqueued on one connection carry  *)
(* strictly increasing counters in the order their produces were sent.     *)
(***************************************************************************)
C3_CountersStrictlyIncrease ==
    /\ \A i, j \in 1..Len(StoredProduces) :
           i < j => /\ CounterOf(StoredProduces[i]) < CounterOf(StoredProduces[j])
                    /\ StoredProduces[i].event.id # StoredProduces[j].event.id
    /\ \A c \in Conns : \A i, j \in 1..Len(Acks(c)) :
           i < j => /\ Acks(c)[i].op_id < Acks(c)[j].op_id
                    /\ Acks(c)[i].event_id.event_counter
                           < Acks(c)[j].event_id.event_counter

C3_TwoAcksOnOneConnection ==
    /\ Len(StoredProduces) = 2
    /\ \E c \in Conns : Len(Acks(c)) = 2

Range(s) == {s[i] : i \in 1..Len(s)}

AckedTo(c, p) == EventAck(p.op_id, p.event.id) \in Range(Acks(c))

(***************************************************************************)
(* C4: started on a log holding counters 1..N of the local actor, the      *)
(* first id the producer manager assigns is (actor, N+1), and it never     *)
(* assigns an id that is already in the log.                               *)
(***************************************************************************)
C4_RestartContinuesAfterHighest ==
    preloaded >= 1 =>
        /\ produces # <<>> =>
               produces[1].event.id = FloEventId(actor_id, preloaded + 1)
        /\ \A i \in 1..Len(StoredProduces) : \A k \in 1..preloaded :
               StoredProduces[i].event.id # PreloadedLog(preloaded)[k].id

(***************************************************************************)
(* C5: a produce whose record was stored puts exactly one EventAck, with   *)
(* the produce's op_id and the assigned id, on the connection that sent    *)
(* it and none on any other connection; started on an empty log, the first *)
(* acknowledgement carries actor 1, counter 1.                             *)
(***************************************************************************)
C5_ExactlyOneAckToProducer ==
    /\ \A i \in 1..Len(StoredProduces) :
           LET p == StoredProduces[i]
               hits(c) == {k \in 1..Len(Acks(c)) : Acks(c)[k].op_id = p.op_id}
           IN  /\ p.connection_id \in open =>
                      /\ Cardinality(hits(p.connection_id)) = 1
                      /\ AckedTo(p.connection_id, p)
               /\ \A c \in Conns \ {p.connection_id} : hits(c) = {}
    /\ preloaded = 0 =>
           \A c \in Conns : \A k \in 1..Len(Acks(c)) :
               Acks(c)[k].op_id = StoredProduces[1].op_id
                   => Acks(c)[k].event_id = FloEventId(1, 1)

(***************************************************************************)
(* C6: a produce whose store fails puts an error message with its op_id    *)
(* and kind PersistenceFailure on the producer's connection and no         *)
(* acknowledgement; the counter does not advance, nothing is announced to  *)
(* the consumer manager, and the connection stays registered.              *)
(***************************************************************************)
C6_StoreFailureIsReported ==
    \A i \in 1..Len(produces) :
        LET p == produces[i] IN
        ~p.stored =>
            /\ p.connection_id \in open =>
                   \E m \in Range(outbound[p.connection_id]) :
                       /\ m.type = "Error"
                       /\ m.op_id = p.op_id
                       /\ m.kind = "PersistenceFailure"
            /\ \A c \in Conns : \A m \in Range(Acks(c)) : m.op_id # p.op_id
            /\ IF i < Len(produces)
               THEN produces[i + 1].event.id = p.event.id
               ELSE highest_event_id = CounterOf(p)
            /\ \A m \in Range(consInbox) : m.type # "EventPersisted"
            /\ p.connection_id \in prodClients

(***************************************************************************)
(* C7: the event stored for a produce, and every event delivered to a      *)
(* subscriber, carries the namespace and the data of the produce request   *)
(* that created it.                                                        *)
(***************************************************************************)
C7_EventCarriesRequestContent ==
    /\ \A i \in 1..Len(StoredProduces) :
           LET p == StoredProduces[i] IN
           /\ p.event.namespace = p.namespace
           /\ p.event.data = p.event_data
    /\ \A c \in Conns : \A m \in Range(Delivered(c)) :
           \A i \in 1..Len(StoredProduces) :
               StoredProduces[i].event.id = m.event.id =>
                   /\ m.event.namespace = StoredProduces[i].namespace
                   /\ m.event.data = StoredProduces[i].event_data

(***************************************************************************)
(* States in which nothing but a new request can happen: every message    *)
(* to the managers has been handled (or its manager has panicked), every   *)
(* stored event has been announced where announcing exists, and no reader  *)
(* thread is running.                                                      *)
(***************************************************************************)
ManagersIdle ==
    /\ prodInbox = <<>>
    /\ consAlive => consInbox = <<>>
    /\ readers = <<>>

AllAnnounced == forwarded = Len(StoredProduces)

DeliveredTo(c, event) == EventMessage(event) \in Range(Delivered(c))

StrictlyIncreasingIds(msgs) ==
    \A i, j \in 1..Len(msgs) :
        i < j => IdLess(msgs[i].event.id, msgs[j].event.id)

C2_AckedEventReachesLaterSubscriber ==
    \A i \in 1..Len(StoredProduces) : \A c \in Conns :
        LET p == StoredProduces[i] IN
        ( /\ AckedTo(p.connection_id, p)
          /\ c # p.connection_id
          /\ c \notin p.accepted
          /\ first_start[c] # NoStart
          /\ first_start[c].limit >= Len(log)
          /\ c \in open
          /\ consAlive
          /\ ManagersIdle )
        => DeliveredTo(c, p.event)

(***************************************************************************)
(* C8: a connection whose StartConsuming was handled while no event        *)
(* existed is delivered each event produced afterwards by another          *)
(* connection and acknowledged, up to its limit: once the managers are     *)
(* idle the event has been delivered.                                      *)
(***************************************************************************)
C8_LiveEventsReachSubscriber ==
    \A i \in 1..Len(StoredProduces) : \A c \in Conns :
        LET p == StoredProduces[i] IN
        ( /\ preloaded = 0
          /\ c \in StoredProduces[1].consuming
          /\ startsBy[c] = 1
          /\ c # p.connection_id
          /\ AckedTo(p.connection_id, p)
          /\ i <= first_start[c].limit
          /\ c \in open
          /\ consAlive
          /\ ManagersIdle )
        => DeliveredTo(c, p.event)

C10_CacheExactlyWhenAfterLastEvicted ==
    [][ \A c \in Conns :
          ( /\ consAlive
            /\ consInbox # <<>>
            /\ Head(consInbox).type = "StartConsuming"
            /\ Head(consInbox).connection_id = c
            /\ consInbox' = Tail(consInbox)
            /\ consumers[c] # NoClient )
          => IF IdLess(cache.last_evicted_id, consumers[c].position)
             THEN /\ consumers'[c].state = "ConsumingFromCache"
                  /\ readers' = readers
             ELSE /\ consumers'[c].state = "ConsumingFromDisk"
                  /\ Len(readers') = Len(readers) + 1
                  /\ readers'[Len(readers')].connection_id = c
      ]_vars

\* the consumer manager takes the message at the head of its inbox
HandlesHead(type) ==
    /\ consAlive
    /\ consInbox # <<>>
    /\ Head(consInbox).type = type
    /\ consInbox' = Tail(consInbox)

C12_SubscriberSeesEveryProducer ==
    \A i \in 1..Len(StoredProduces) : \A c \in Conns :
        ( /\ first_start[c] # NoStart
          /\ first_start[c].start = Zero
          /\ first_start[c].limit >= Len(log)
          /\ c \in open
          /\ consAlive
          /\ ManagersIdle )
        => DeliveredTo(c, StoredProduces[i].event)

ContinueOf(r) ==
    [type |-> "ContinueConsuming", connection_id |-> r.connection_id,
     event_id |-> r.last_sent_id, limit |-> r.limit - r.sent_events]

\* what a reader thread does in one step, as seen from outside
ReaderSendsInLogOrder ==
    \A i \in 1..Len(readers) :
        (Len(readers') = Len(readers) /\ readers'[i] # readers[i]) =>
            /\ readers[i].sent_events < readers[i].limit
            /\ readers'[i].offset = readers[i].offset + 1
            /\ consInbox' = Append(consInbox,
                   [type |-> "EventLoaded",
                    connection_id |-> readers[i].connection_id,
                    event |-> log[readers[i].offset]])

ReaderContinuesIffShort ==
    (Len(readers') < Len(readers) /\ consAlive) =>
        \E i \in 1..Len(readers) :
            /\ readers' = RemoveAt(readers, i)
            /\ consInbox' = IF readers[i].sent_events < readers[i].limit
                            THEN Append(consInbox, ContinueOf(readers[i]))
                            ELSE consInbox

ContinuationFindsPositionAtLastSent ==
    ( /\ consInbox # <<>>
      /\ Head(consInbox).type = "ContinueConsuming"
      /\ Head(consInbox).connection_id \in open )
    => consumers[Head(consInbox).connection_id].position
           = Head(consInbox).event_id

C17_ClientConnectComesFirst ==
    /\ \A k \in 1..Len(prodInbox) :
           prodInbox[k].type = "Produce" =>
               \/ prodInbox[k].connection_id \in prodClients
               \/ \E j \in 1..(k - 1) :
                      prodInbox[j] = ClientConnect(prodInbox[k].connection_id)
    /\ \A k \in 1..Len(consInbox) :
           consInbox[k].type = "StartConsuming" =>
               \/ consumers[consInbox[k].connection_id] # NoClient
               \/ \E j \in 1..(k - 1) :
                      consInbox[j] = ClientConnect(consInbox[k].connection_id)
    /\ (prodInbox # <<>> /\ Head(prodInbox).type = "Produce")
           => Head(prodInbox).connection_id \in prodClients
    /\ (consInbox # <<>> /\ Head(consInbox).type = "StartConsuming")
           => consumers[Head(consInbox).connection_id] # NoClient

C17_ManagersTakeRequestsOfRegistered ==
    /\ prodInbox # <<>>
    /\ Head(prodInbox).type = "Produce"
    /\ Head(prodInbox).connection_id \in prodClients
    /\ consInbox # <<>>
    /\ Head(consInbox).type = "StartConsuming"
    /\ consumers[Head(consInbox).connection_id] # NoClient
    /\ \E k \in 1..Len(consInbox) : consInbox[k].type = "ClientConnect"

(***************************************************************************)
(* C18: the handler that stores an event enqueues its EventAck and then    *)
(* forwards EventPersisted to the consumer manager, so every stored event  *)
(* has been forwarded when the handler returns, its ack is on the          *)
(* producer's connection before the event is on any other connection, and  *)
(* EventPersisted is only ever forwarded for an event that is in the log.  *)
(***************************************************************************)
C18_AckThenForward ==
    /\ forwarded = Len(StoredProduces)
    /\ \A i \in 1..Len(StoredProduces) :
           LET p == StoredProduces[i] IN
           \A c \in Conns \ {p.connection_id} :
               (DeliveredTo(c, p.event) /\ p.connection_id \in open)
                   => AckedTo(p.connection_id, p)
    /\ \A k \in 1..Len(consInbox) :
           consInbox[k].type = "EventPersisted"
               => consInbox[k].event \in Range(log)

(***************************************************************************)
(* The wire protocol of a client connection: frames as bytes.              *)
(***************************************************************************)
MaxWireFrames == 2
BUFFER_SIZE == 8 * 1024
U32Bytes == 4
U64Bytes == 8

FLO_PRO == <<70, 76, 79, 95, 80, 82, 79, 10>>     \* "FLO_PRO\n"
FLO_CNS == <<70, 76, 79, 95, 67, 78, 83, 10>>     \* "FLO_CNS\n"
FLO_XXX == <<70, 76, 79, 95, 88, 88, 88, 10>>     \* "FLO_XXX\n", no tag of the protocol
TagBytes == Len(FLO_PRO)
Tags == {FLO_PRO, FLO_CNS}

Min(a, b) == IF a <= b THEN a ELSE b
Take(s, n) == SubSeq(s, 1, Min(n, Len(s)))
Drop(s, n) == SubSeq(s, n + 1, Len(s))
IsPrefix(a, b) == Len(a) <= Len(b) /\ SubSeq(b, 1, Len(a)) = a

\* BigEndian::write_u32 / write_u64
RECURSIVE BigEndian(_, _)
BigEndian(n, width) ==
    IF width = 0 THEN <<>>
    ELSE Append(BigEndian(n \div 256, width - 1), n % 256)

\* be_u32 / be_u64
RECURSIVE be_uint(_)
be_uint(bytes) ==
    IF bytes = <<>> THEN 0
    ELSE be_uint(SubSeq(bytes, 1, Len(bytes) - 1)) * 256 + bytes[Len(bytes)]

EventHeader(op_id, data_length) ==
    [type |-> "ProduceEvent", op_id |-> op_id, data_length |-> data_length]
StartConsuming(limit) == [type |-> "StartConsuming", limit |-> limit]
Produce(connection_id, op_id, event_data) ==
    [type |-> "Produce", connection_id |-> connection_id, op_id |-> op_id,
     event_data |-> event_data]

\* what a client writes for one request
ProduceFrame(op_id, data) ==
    FLO_PRO \o BigEndian(op_id, U32Bytes) \o BigEndian(Len(data), U32Bytes) \o data
ConsumeFrame(limit) == FLO_CNS \o BigEndian(limit, U64Bytes)

\* ClientProtocol::parse_any: one header from the front of the bytes
parse_any(bytes) ==
    LET tag == Take(bytes, TagBytes)
        body == Drop(bytes, TagBytes)
    IN  IF \A t \in Tags : ~IsPrefix(tag, t) THEN [kind |-> "Error"]
        ELSE IF Len(tag) < TagBytes THEN [kind |-> "Incomplete"]
        ELSE IF tag = FLO_PRO
        THEN IF Len(body) < 2 * U32Bytes THEN [kind |-> "Incomplete"]
             ELSE [kind |-> "Done", used |-> TagBytes + 2 * U32Bytes,
                   message |-> EventHeader(
                        be_uint(SubSeq(body, 1, U32Bytes)),
                        be_uint(SubSeq(body, U32Bytes + 1, 2 * U32Bytes)))]
        ELSE IF Len(body) < U64Bytes THEN [kind |-> "Incomplete"]
             ELSE [kind |-> "Done", used |-> TagBytes + U64Bytes,
                   message |-> StartConsuming(be_uint(Take(body, U64Bytes)))]

(***************************************************************************)
(* ClientMessageStream.                                                    *)
(***************************************************************************)
NotReady == [kind |-> "NotReady"]
ReadySome(item) == [kind |-> "ReadySome", item |-> item]
ReadyNone == [kind |-> "ReadyNone"]
StreamErr == [kind |-> "Err"]

NoEvent == [position |-> 0]
NoHeader == [type |-> "None"]

\* ClientMessageStream::new; buffer holds the bytes of the last read, the
\* only part of the 8 KiB buffer that buffer_pos and filled_bytes address
NewStream(connection_id) ==
    [connection_id |-> connection_id, buffer |-> <<>>, buffer_pos |-> 0,
     filled_bytes |-> 0, state |-> "Reading", event |-> NoEvent,
     read_complete |-> FALSE]

\* a stream that reads on every poll, buffered bytes or not
requires_readAlways(s) == s.state = "ReadEvent" \/ s.filled_bytes >= 0

requires_read(s) == s.state = "ReadEvent" \/ s.filled_bytes = 0

try_read(s, bytes) ==
    [s EXCEPT !.buffer = bytes, !.buffer_pos = 0, !.filled_bytes = Len(bytes)]

\* the bytes an event still needs, forgetting those it already holds
remainingIgnoresPosition(in_progress) == Len(in_progress.event.event_data)

\* an event that counts as filled once it holds any byte of its body
remainingUntilFirstByte(in_progress) ==
    IF in_progress.position > 0 THEN 0
    ELSE Len(in_progress.event.event_data) - in_progress.position

remaining(in_progress) == Len(in_progress.event.event_data) - in_progress.position

try_parse_event(s, evt_header) ==
    LET started ==
            IF s.state = "ReadEvent" THEN s.event
            ELSE [event |-> Produce(s.connection_id, evt_header.op_id,
                                    [i \in 1..evt_header.data_length |-> 0]),
                  position |-> 0]
        evt_current_pos == started.position
        n == Min(s.filled_bytes, remaining(started))
        filled_buffer == SubSeq(s.buffer, s.buffer_pos + 1, s.buffer_pos + n)
        in_progress_event ==
            [event |-> [started.event EXCEPT !.event_data =
                            [i \in 1..Len(@) |->
                                IF i > evt_current_pos /\ i <= evt_current_pos + n
                                THEN filled_buffer[i - evt_current_pos] ELSE @[i]]],
             position |-> evt_current_pos + n]
        moved == [s EXCEPT !.buffer_pos = @ + n, !.filled_bytes = @ - n]
    IN  IF remaining(in_progress_event) = 0
        THEN [stream |-> [moved EXCEPT !.state = "Parsing", !.event = NoEvent],
              result |-> ReadySome(in_progress_event.event), parsed |-> "none"]
        ELSE [stream |-> [moved EXCEPT !.state = "ReadEvent",
                                       !.event = in_progress_event],
              result |-> NotReady, parsed |-> "none"]

try_parse(s) ==
    LET parse_result ==
            parse_any(SubSeq(s.buffer, s.buffer_pos + 1, s.buffer_pos + s.filled_bytes))
    IN  CASE parse_result.kind = "Done" ->
                LET nused == parse_result.used
                    after == [s EXCEPT !.buffer_pos = @ + nused,
                                       !.filled_bytes = @ - nused]
                IN  IF parse_result.message.type = "ProduceEvent"
                    THEN [try_parse_event(after, parse_result.message)
                            EXCEPT !.parsed = "Done"]
                    ELSE [stream |-> after, result |-> ReadySome(parse_result.message),
                          parsed |-> "Done"]
          [] parse_result.kind = "Incomplete" ->
                [stream |-> s, result |-> NotReady, parsed |-> "Incomplete"]
          [] parse_result.kind = "Error" ->
                [stream |-> s, result |-> StreamErr, parsed |-> "Error"]

\* a poll that hands the parser's error on as the stream's error
PollResultPassesError(result, read_complete) ==
    IF result.kind = "NotReady" /\ read_complete THEN ReadyNone
    ELSE result

\* the last match of poll
PollResult(result, read_complete) ==
    IF result.kind = "NotReady" /\ read_complete THEN ReadyNone
    ELSE IF result.kind = "Err" THEN ReadyNone
    ELSE result

\* a poll that takes a read that would block for a read of 0 bytes
pollTakesBlockForEnd(s, read) ==
    IF requires_read(s) /\ read.kind = "Error"
    THEN [stream |-> s, result |-> StreamErr, parsed |-> "none"]
    ELSE LET bytes == IF read.kind = "WouldBlock" THEN <<>> ELSE read.bytes
             s1 == IF requires_read(s)
                   THEN [try_read(s, bytes) EXCEPT !.read_complete = (Len(bytes) = 0)]
                   ELSE s
             r == IF s1.state = "ReadEvent" THEN try_parse_event(s1, NoHeader)
                  ELSE try_parse(s1)
         IN  [r EXCEPT !.result = PollResult(@, s1.read_complete)]

\* Stream::poll, given what tcp_reader.read answers if it is called
poll(s, read) ==
    IF requires_read(s) /\ read.kind = "WouldBlock"
    THEN [stream |-> s, result |-> NotReady, parsed |-> "none"]
    ELSE IF requires_read(s) /\ read.kind = "Error"
    THEN [stream |-> s, result |-> StreamErr, parsed |-> "none"]
    ELSE LET s1 == IF requires_read(s)
                   THEN [try_read(s, read.bytes)
                            EXCEPT !.read_complete = (Len(read.bytes) = 0)]
                   ELSE s
             r == IF s1.state = "ReadEvent" THEN try_parse_event(s1, NoHeader)
                  ELSE try_parse(s1)
         IN  [r EXCEPT !.result = PollResult(@, s1.read_complete)]

(***************************************************************************)
(* The connection task: socket, stream, and the engine channel.            *)
(***************************************************************************)
MaxWireBytes == 34

WireRequests == {Produce(0, 1, <<8, 9>>), StartConsuming(MaxLimit)}

Encode(m) ==
    IF m.type = "Produce" THEN ProduceFrame(m.op_id, m.event_data)
    ELSE ConsumeFrame(m.limit)

RECURSIVE EncodeAll(_)
EncodeAll(ms) == IF ms = <<>> THEN <<>> ELSE Encode(Head(ms)) \o EncodeAll(Tail(ms))

SeqsUpTo(S, n) == UNION {[1..k -> S] : k \in 0..n}

\* byte sequences that encode a sequence of client messages
ValidInputs == {EncodeAll(ms) : ms \in SeqsUpTo(WireRequests, MaxWireFrames)}
\* and ones that turn unparseable after some messages
BrokenInputs == {EncodeAll(ms) \o FLO_XXX : ms \in SeqsUpTo(WireRequests, MaxWireFrames - 1)}
\* and ones that end inside a produce frame, after its header and k bytes of
\* its two-byte body
Truncated(ms, k) ==
    EncodeAll(ms) \o Take(ProduceFrame(2, <<8, 9>>), TagBytes + 2 * U32Bytes + k)
TruncatedInputs ==
    {Truncated(ms, k) : ms \in SeqsUpTo(WireRequests, MaxWireFrames - 1), k \in 0..1}
WireInputs == ValidInputs \cup BrokenInputs \cup TruncatedInputs

\* setup_message_streams: as Accept, with the connection's stream and the
\* bytes its client is going to write
setup_message_streams(bytes) ==
    /\ next_connection_id <= MaxConns
    /\ SumOver([c \in Conns |-> Len(sent[c])], Conns) + Len(bytes) <= MaxWireBytes
    /\ next_connection_id' = next_connection_id + 1
    /\ open' = open \cup {next_connection_id}
    /\ prodInbox' = Append(prodInbox, ClientConnect(next_connection_id))
    /\ consInbox' = Append(consInbox, ClientConnect(next_connection_id))
    /\ streams' = [streams EXCEPT ![next_connection_id] = NewStream(next_connection_id)]
    /\ sent' = [sent EXCEPT ![next_connection_id] = bytes]
    /\ UNCHANGED <<outbound, nProduce, startsBy, nDisconnects, preloaded, forwarded,
                   nread, decoded, stream_end, parse_failed>>
    /\ UNCHANGED <<prodVars, consVars, readVars, libVars>>

\* what tcp_reader.read can answer: nothing yet, an error, some of the bytes
\* in flight, or end of input once the client has written everything
ReadOutcomes(c) ==
    LET pending == Drop(sent[c], nread[c])
    IN  {[kind |-> "WouldBlock"], [kind |-> "Error"]}
        \cup {[kind |-> "Ok", bytes |-> Take(pending, k)] :
                k \in (IF pending = <<>> THEN 0 ELSE 1)..Min(Len(pending), BUFFER_SIZE)}

\* one poll of the connection's stream by its task; an item goes to the
\* engine, the end of the stream ends the task and drops the connection
StreamPoll(c) ==
    /\ streams[c] # NoStream
    /\ \E read \in ReadOutcomes(c) : \E p \in {poll(streams[c], read)} :
        LET s == streams[c]
            item == IF p.result.kind = "ReadySome" THEN p.result.item ELSE NoHeader
            over == p.result.kind \in {"ReadyNone", "Err"}
        IN  /\ nread' = [nread EXCEPT ![c] =
                            @ + (IF requires_read(s) /\ read.kind = "Ok"
                                 THEN Len(read.bytes) ELSE 0)]
            /\ parse_failed' = [parse_failed EXCEPT ![c] = @ \/ p.parsed = "Error"]
            /\ streams' = [streams EXCEPT ![c] = IF over THEN NoStream ELSE p.stream]
            /\ stream_end' = [stream_end EXCEPT ![c] =
                                IF p.result.kind = "ReadyNone" THEN "EndOfStream"
                                ELSE IF p.result.kind = "Err" THEN "Err" ELSE @]
            /\ open' = IF over THEN open \ {c} ELSE open
            /\ decoded' = [decoded EXCEPT ![c] =
                                IF item = NoHeader THEN @ ELSE Append(@, item)]
            /\ prodInbox' = IF item.type = "Produce" THEN Append(prodInbox, item)
                            ELSE prodInbox
            /\ consInbox' = IF item.type = "StartConsuming"
                            THEN Append(consInbox,
                                    [type |-> "StartConsuming", connection_id |-> c,
                                     limit |-> item.limit])
                            ELSE consInbox
    /\ UNCHANGED <<next_connection_id, outbound, nProduce, startsBy, nDisconnects,
                   preloaded, forwarded, sent>>
    /\ UNCHANGED <<prodVars, consVars, readVars, libVars>>

WireNext ==
    \/ \E bytes \in WireInputs : setup_message_streams(bytes)
    \/ \E c \in Conns : StreamPoll(c)
    \/ ProducerClientConnect
    \/ ConsumerClientConnect

\* the server starts on an empty data directory
WireInit == Init /\ preloaded = 0

WireSpec == WireInit /\ [][WireNext]_vars

(***************************************************************************)
(* What the connection tasks have handed to the engine.                    *)
(***************************************************************************)
\* the requests of connection c in the managers' channels
ForwardedFrom(c) ==
    <<SelectSeq(prodInbox, LAMBDA m : m.type # "ClientConnect" /\ m.connection_id = c),
      SelectSeq(consInbox, LAMBDA m : m.type # "ClientConnect" /\ m.connection_id = c)>>

\* C19: in the step where parse_any answers Error on connection c, the
\* stream of c ends with end-of-stream (not with an error item), nothing is
\* written to any connection, nothing of c is forwarded to the engine then or
\* at any later step, and the stream, socket, open state and registration of
\* every other connection stay as they were.
C19_ParseErrorEndsOnlyThatStream ==
    [][\A c \in Conns :
         /\ (parse_failed'[c] /\ ~parse_failed[c]) =>
                /\ stream_end'[c] = "EndOfStream"
                /\ streams'[c] = NoStream
                /\ c \notin open'
                /\ outbound' = outbound
                /\ ForwardedFrom(c)' = ForwardedFrom(c)
                /\ \A d \in Conns \ {c} :
                       /\ streams'[d] = streams[d]
                       /\ stream_end'[d] = stream_end[d]
                       /\ nread'[d] = nread[d]
                       /\ decoded'[d] = decoded[d]
                       /\ ForwardedFrom(d)' = ForwardedFrom(d)
                       /\ (d \in open') = (d \in open)
                       /\ (d \in prodClients') = (d \in prodClients)
                       /\ consumers'[d] = consumers[d]
         /\ parse_failed[c] =>
                /\ streams'[c] = NoStream
                /\ decoded'[c] = decoded[c]
                /\ ForwardedFrom(c)' = ForwardedFrom(c)
      ]_vars

\* a connection was closed for unparseable input while another, registered
\* with both managers, has its stream running and a request decoded
C19_ParseErrorBesideWorkingStream ==
    \E c \in Conns, d \in Conns :
        /\ c # d
        /\ parse_failed[c] /\ stream_end[c] = "EndOfStream"
        /\ streams[d] # NoStream /\ d \in open
        /\ decoded[d] # <<>>
        /\ d \in prodClients /\ consumers[d] # NoClient

\* the items a stream yields when one read returns all of its input and the
\* next read finds the input ended
RECURSIVE Drain(_, _)
Drain(s, read) ==
    LET p == poll(s, read)
    IN  IF p.result.kind = "ReadySome"
        THEN <<p.result.item>> \o Drain(p.stream, [kind |-> "Ok", bytes |-> <<>>])
        ELSE <<>>

OneRead(c) == Drain(NewStream(c), [kind |-> "Ok", bytes |-> sent[c]])

\* the stream of c holds bytes that do not parse yet, and whatever its socket
\* would answer, a poll yields nothing and leaves the stream as it is
WaitsOnBufferedBytes(c) ==
    /\ streams[c] # NoStream
    /\ streams[c].filled_bytes > 0
    /\ \A read \in ReadOutcomes(c) :
            /\ poll(streams[c], read).stream = streams[c]
            /\ poll(streams[c], read).result = NotReady

\* C20: for an input that encodes a sequence of client messages, whatever
\* the reads return, the stream yields a prefix of what it yields when one
\* read returns the whole input, all of it once the input has been read to
\* its end, and it is never left holding bytes that its next poll neither
\* parses nor adds to.
C20_SplitReadsDecodeLikeOneRead ==
    \A c \in connected :
        sent[c] \in ValidInputs =>
            /\ IsPrefix(decoded[c], OneRead(c))
            /\ stream_end[c] = "EndOfStream" => decoded[c] = OneRead(c)
            /\ ~WaitsOnBufferedBytes(c)

\* the requests a client's bytes encode, as its connection's stream is to
\* yield them
RequestsOf(c) ==
    LET ms == CHOOSE s \in SeqsUpTo(WireRequests, MaxWireFrames) : EncodeAll(s) = sent[c]
    IN  [i \in 1..Len(ms) |->
            IF ms[i].type = "Produce"
            THEN Produce(c, ms[i].op_id, ms[i].event_data) ELSE ms[i]]

\* the bytes of the first k requests of c
FrameBytes(c, k) ==
    EncodeAll([i \in 1..k |->
        IF RequestsOf(c)[i].type = "Produce"
        THEN [RequestsOf(c)[i] EXCEPT !.connection_id = 0] ELSE RequestsOf(c)[i]])

HeaderBytes == TagBytes + 2 * U32Bytes

\* C21: whatever the reads return after a produce header was parsed, the
\* event being filled holds the header's op_id, the stream's connection id,
\* room for data_len bytes and, up to its position, exactly the body bytes
\* read so far; the stream yields each Produce once, with exactly the body
\* as its data, and between events the buffer holds exactly the bytes read
\* beyond the last body, none of them copied into an event.
C21_BodyIsStreamedIntoOneEvent ==
    \A c \in connected :
        (sent[c] \in ValidInputs /\ streams[c] # NoStream) =>
            LET s == streams[c]
                k == Len(decoded[c])
                done == Len(FrameBytes(c, k))
            IN  /\ IsPrefix(decoded[c], RequestsOf(c))
                /\ s.state = "ReadEvent" =>
                       /\ k < Len(RequestsOf(c))
                       /\ RequestsOf(c)[k + 1].type = "Produce"
                       /\ s.event.event.op_id = RequestsOf(c)[k + 1].op_id
                       /\ s.event.event.connection_id = c
                       /\ Len(s.event.event.event_data)
                            = Len(RequestsOf(c)[k + 1].event_data)
                       /\ s.event.position < Len(s.event.event.event_data)
                       /\ Take(s.event.event.event_data, s.event.position)
                            = Take(RequestsOf(c)[k + 1].event_data, s.event.position)
                       /\ s.filled_bytes = 0
                       /\ nread[c] = done + HeaderBytes + s.event.position
                /\ s.state # "ReadEvent" =>
                       SubSeq(s.buffer, s.buffer_pos + 1, s.buffer_pos + s.filled_bytes)
                            = SubSeq(sent[c], done + 1, nread[c])

\* a produce body arrived in two reads, the second of which went on into the
\* next frame, and the stream has yielded the event and then the next request
C21_BodySplitAndFollowedByAFrame ==
    \E c \in connected :
        /\ sent[c] \in ValidInputs /\ streams[c] # NoStream
        /\ Len(decoded[c]) = 2 /\ decoded[c] = RequestsOf(c)
        /\ decoded[c][1].type = "Produce"
        /\ streams[c].buffer = Drop(sent[c], HeaderBytes + 1)

(***************************************************************************)
(* The flo-event crate: the order of event ids.                            *)
(***************************************************************************)
MaxActor == 2
MaxCounter == 2

EventIds == {FloEventId(a, n) : a \in 0..MaxActor, n \in 0..MaxCounter}

\* Ord::cmp of the integer types
IntCmp(x, y) == IF x < y THEN "Less" ELSE IF x = y THEN "Equal" ELSE "Greater"

\* an order that looks at the actor before the counter
cmpActorFirst(a, b) ==
    IF a.actor = b.actor THEN IntCmp(a.event_counter, b.event_counter)
    ELSE IntCmp(a.actor, b.actor)

\* impl Ord for FloEventId
cmp(a, b) ==
    IF a.event_counter = b.event_counter THEN IntCmp(a.actor, b.actor)
    ELSE IntCmp(a.event_counter, b.event_counter)

Some(x) == [some |-> x]

\* impl PartialOrd for FloEventId
partial_cmp(a, b) ==
    IF a.event_counter = b.event_counter THEN Some(IntCmp(a.actor, b.actor))
    ELSE Some(IntCmp(a.event_counter, b.event_counter))

EventIdInit ==
    /\ EngineInit /\ preloaded = 0
    /\ cmp_args \in EventIds \X EventIds \X EventIds
    /\ cmp_out = Unused
    /\ eventIdOthersIdle

\* every comparison among the three ids
CompareIds ==
    /\ cmp_out = Unused
    /\ cmp_out' = [cmp |-> [i \in 1..3 |-> [j \in 1..3 |-> cmp(cmp_args[i], cmp_args[j])]],
                   partial_cmp |-> [i \in 1..3 |-> [j \in 1..3 |->
                                        partial_cmp(cmp_args[i], cmp_args[j])]]]
    /\ UNCHANGED <<cmp_args, eventIdOthers>>

EventIdNext == CompareIds

EventIdSpec == EventIdInit /\ [][EventIdNext]_vars

\* C22: cmp is Less exactly when the first id has the smaller counter, or
\* the same counter and the smaller actor; Equal exactly for equal ids;
\* Greater exactly when the ids compare Less the other way round; it is
\* transitive; partial_cmp answers Some of what cmp answers; and the
\* operator < of the ids is cmp = Less.
C22_IdOrderIsCounterThenActor ==
    cmp_out # Unused =>
        \A i \in 1..3, j \in 1..3 :
            LET a == cmp_args[i]
                b == cmp_args[j]
            IN  /\ (cmp_out.cmp[i][j] = "Less") =
                      (\/ a.event_counter < b.event_counter
                       \/ a.event_counter = b.event_counter /\ a.actor < b.actor)
                /\ (cmp_out.cmp[i][j] = "Equal") = (a = b)
                /\ (cmp_out.cmp[i][j] = "Greater") = (cmp_out.cmp[j][i] = "Less")
                /\ cmp_out.cmp[i][j] \in {"Less", "Equal", "Greater"}
                /\ \A k \in 1..3 :
                      (cmp_out.cmp[i][j] = "Less" /\ cmp_out.cmp[j][k] = "Less")
                          => cmp_out.cmp[i][k] = "Less"
                /\ cmp_out.partial_cmp[i][j] = Some(cmp_out.cmp[i][j])
                /\ IdLess(a, b) = (cmp_out.cmp[i][j] = "Less")

\* three ids in a chain where counter and actor pull in opposite directions,
\* and the first two share the counter
C22_ChainAcrossCounterAndActor ==
    /\ cmp_out # Unused
    /\ cmp_out.cmp[1][2] = "Less" /\ cmp_out.cmp[2][3] = "Less"
    /\ cmp_args[1].event_counter = cmp_args[2].event_counter
    /\ cmp_args[2].actor > cmp_args[3].actor

(***************************************************************************)
(* The flo-event crate: the version map.                                   *)
(***************************************************************************)
MaxAmount == 2
MaxMapCounter == 3

ActorIds == 0..MaxActor

\* HashMap::new
NewMap == [a \in {} |-> 0]

MapWith(m, actor, counter) ==
    [a \in DOMAIN m \cup {actor} |-> IF a = actor THEN counter ELSE m[a]]

get_counter(m, actor) == IF actor \in DOMAIN m THEN m[actor] ELSE 0

\* increment: the map afterwards, and the counter returned
increment(m, actor, amount) ==
    LET current == get_counter(MapWith(m, actor, get_counter(m, actor)), actor) + amount
    IN  [map |-> MapWith(m, actor, current), returned |-> current]

\* a set that never lowers a counter
setKeepsGreater(m, event_id) ==
    IF event_id.event_counter > get_counter(m, event_id.actor)
    THEN MapWith(m, event_id.actor, event_id.event_counter) ELSE m

set(m, event_id) == MapWith(m, event_id.actor, event_id.event_counter)

\* a comparison that also accepts the counter already recorded
event_is_greaterOrEqual(m, event_id) ==
    event_id.event_counter >= get_counter(m, event_id.actor)

event_is_greater(m, event_id) ==
    event_id.event_counter > get_counter(m, event_id.actor)

VersionMapInit ==
    /\ EngineInit /\ preloaded = 0
    /\ id_map = NewMap
    /\ map_call = [op |-> "new"]
    /\ idMapOthersIdle

MapSet(event_id) ==
    /\ id_map' = set(id_map, event_id)
    /\ map_call' = [op |-> "set", event_id |-> event_id, before |-> id_map]
    /\ UNCHANGED idMapOthers

MapIncrement(actor, amount) ==
    /\ get_counter(id_map, actor) + amount <= MaxMapCounter
    /\ id_map' = increment(id_map, actor, amount).map
    /\ map_call' = [op |-> "increment", actor |-> actor, amount |-> amount,
                    before |-> id_map,
                    returned |-> increment(id_map, actor, amount).returned]
    /\ UNCHANGED idMapOthers

\* event_is_greater takes the map by shared reference
MapEventIsGreater(event_id) ==
    /\ id_map' = id_map
    /\ map_call' = [op |-> "event_is_greater", event_id |-> event_id, before |-> id_map,
                    returned |-> event_is_greater(id_map, event_id)]
    /\ UNCHANGED idMapOthers

VersionMapNext ==
    \/ \E event_id \in EventIds : MapSet(event_id)
    \/ \E actor \in ActorIds, amount \in 0..MaxAmount : MapIncrement(actor, amount)
    \/ \E event_id \in EventIds : MapEventIsGreater(event_id)

VersionMapSpec == VersionMapInit /\ [][VersionMapNext]_vars

\* C23: a new map answers 0 for every actor, and so does any map for an
\* actor it has no entry for; after set(id) the counter of id.actor is
\* id.event_counter, whatever it was; increment(a, k) returns the counter of
\* a before the call plus k and stores it; both leave the counter of every
\* other actor as it was.
C23_VersionMapIsActorToCounter ==
    /\ \A a \in ActorIds : a \notin DOMAIN id_map => get_counter(id_map, a) = 0
    /\ map_call.op = "new" => \A a \in ActorIds : get_counter(id_map, a) = 0
    /\ map_call.op = "set" =>
          /\ get_counter(id_map, map_call.event_id.actor) = map_call.event_id.event_counter
          /\ \A a \in ActorIds \ {map_call.event_id.actor} :
                get_counter(id_map, a) = get_counter(map_call.before, a)
    /\ map_call.op = "increment" =>
          /\ map_call.returned = get_counter(map_call.before, map_call.actor) + map_call.amount
          /\ get_counter(id_map, map_call.actor) = map_call.returned
          /\ \A a \in ActorIds \ {map_call.actor} :
                get_counter(id_map, a) = get_counter(map_call.before, a)

\* a set that lowered the counter of an actor, beside another actor's entry
C23_SetLowersACounter ==
    /\ map_call.op = "set"
    /\ map_call.event_id.event_counter < get_counter(map_call.before, map_call.event_id.actor)
    /\ \E a \in DOMAIN id_map : a # map_call.event_id.actor /\ id_map[a] > 0

(***************************************************************************)
(* The events file: records on disk and the iterator that reads them       *)
(* (event_store/fs/reader.rs).  The writer of the file is described from   *)
(* the layout of the on-disk log; the reader is the code of reader.rs.     *)
(***************************************************************************)
MaxRecords == 2
MaxIterLimit == 3
MaxIterCalls == 4
MaxFileErrors == 1
\* capacity of the BufReader's buffer, scaled down with the records
ReaderBufferSize == 38
U16Bytes == 2
MagicBytes == 8
EventHeaderBytes == 26

FLO_EVT == <<70, 76, 79, 95, 69, 86, 84, 10>>     \* "FLO_EVT\n"

\* namespaces and bodies of the events in the file, as bytes
FileNamespaces == {<<>>, <<47>>}
FileData == {<<>>} \cup DataValues

None == [none |-> TRUE]
Ok(x) == [ok |-> x]
Err(kind) == [err |-> kind]
NoIter == [state |-> "None"]
NoCheck == [checked |-> FALSE]

\* the length field a record carries: the whole record, magic included
total_size(namespace, data) ==
    MagicBytes + U32Bytes + U64Bytes + U16Bytes + U32Bytes + Len(namespace)
        + U32Bytes + Len(data)

\* one record of the file
Record(event) ==
    FLO_EVT
        \o BigEndian(total_size(event.namespace, event.data), U32Bytes)
        \o BigEndian(event.id.event_counter, U64Bytes)
        \o BigEndian(event.id.actor, U16Bytes)
        \o BigEndian(Len(event.namespace), U32Bytes)
        \o event.namespace
        \o BigEndian(Len(event.data), U32Bytes)
        \o event.data

\* BufReader<File>: the position of the file and the bytes buffered; fail
\* says that the next read of the file returns an error
BufReader(offset, fail) == [offset |-> offset, buf |-> <<>>, fail |-> fail]

\* BufReader::fill_buf: reads the file only when the buffer is empty
fill_buf(f, rd) ==
    IF rd.buf # <<>> THEN [rd |-> rd, err |-> FALSE]
    ELSE IF rd.fail THEN [rd |-> [rd EXCEPT !.fail = FALSE], err |-> TRUE]
    ELSE LET got == SubSeq(f, rd.offset + 1, Min(rd.offset + ReaderBufferSize, Len(f)))
         IN  [rd |-> [rd EXCEPT !.buf = got, !.offset = @ + Len(got)], err |-> FALSE]

\* Read::read_exact on the BufReader, for reads shorter than its buffer
RECURSIVE read_exact(_, _, _, _)
read_exact(f, rd, n, acc) ==
    IF n = 0 THEN [rd |-> rd, bytes |-> acc, ok |-> TRUE]
    ELSE IF rd.buf # <<>>
    THEN LET k == Min(n, Len(rd.buf))
         IN  read_exact(f, [rd EXCEPT !.buf = Drop(@, k)], n - k, acc \o Take(rd.buf, k))
    ELSE LET filled == fill_buf(f, rd)
         IN  IF filled.err \/ filled.rd.buf = <<>>
             THEN [rd |-> filled.rd, bytes |-> acc, ok |-> FALSE]
             ELSE read_exact(f, filled.rd, n, acc)

has_next_event(f, rd) ==
    LET filled == fill_buf(f, rd)
    IN  IF filled.err THEN [rd |-> filled.rd, result |-> Err("io")]
        ELSE [rd |-> filled.rd,
              result |-> Ok(Len(filled.rd.buf) >= MagicBytes
                            /\ Take(filled.rd.buf, MagicBytes) = FLO_EVT)]

DiskEventHeader(total, event_counter, actor, namespace_length) ==
    [total_size |-> total, event_counter |-> event_counter, actor_id |-> actor,
     namespace_length |-> namespace_length]

\* EventHeader::compute_data_length
compute_data_length(header) ==
    header.total_size - 4 - 10 - 4 - header.namespace_length - 4

HeaderEventId(header) == FloEventId(header.actor_id, header.event_counter)

read_header(f, rd) ==
    LET r == read_exact(f, rd, EventHeaderBytes, <<>>)
        b == r.bytes
    IN  IF ~r.ok THEN [rd |-> r.rd, result |-> Err("io")]
        ELSE IF SubSeq(b, 1, 8) = FLO_EVT
        THEN [rd |-> r.rd,
              result |-> Ok(DiskEventHeader(be_uint(SubSeq(b, 9, 12)),
                                            be_uint(SubSeq(b, 13, 20)),
                                            be_uint(SubSeq(b, 21, 22)),
                                            be_uint(SubSeq(b, 23, 26))))]
        ELSE [rd |-> r.rd, result |-> Err("invalid data")]

\* String::from_utf8, for the one-byte characters
from_utf8(bytes) == \A i \in 1..Len(bytes) : bytes[i] < 128

\* read_event; check holds the two lengths of its debug assertion
read_event(f, rd) ==
    LET h == read_header(f, rd)
    IN  IF "err" \in DOMAIN h.result THEN [rd |-> h.rd, result |-> h.result, check |-> NoCheck]
        ELSE
        LET header == h.result.ok
            ns == read_exact(f, h.rd, header.namespace_length, <<>>)
        IN  IF ~ns.ok THEN [rd |-> ns.rd, result |-> Err("io"), check |-> NoCheck]
            ELSE IF ~from_utf8(ns.bytes)
            THEN [rd |-> ns.rd, result |-> Err("invalid data"), check |-> NoCheck]
            ELSE
            LET len == read_exact(f, ns.rd, U32Bytes, <<>>)
            IN  IF ~len.ok THEN [rd |-> len.rd, result |-> Err("io"), check |-> NoCheck]
                ELSE
                LET data_length == be_uint(len.bytes)
                    check == [checked |-> TRUE, data_length |-> data_length,
                              computed |-> compute_data_length(header)]
                    data == read_exact(f, len.rd, data_length, <<>>)
                IN  IF ~data.ok THEN [rd |-> data.rd, result |-> Err("io"), check |-> check]
                    ELSE [rd |-> data.rd,
                          result |-> Ok(OwnedFloEvent(HeaderEventId(header), ns.bytes, data.bytes)),
                          check |-> check]

\* FSEventIter::initialize, empty and error
FSEventIterInitialize(offset, limit) ==
    [state |-> "NonEmpty", file_reader |-> BufReader(offset, FALSE), remaining |-> limit]
FSEventIterEmpty == [state |-> "Empty"]
FSEventIterError == [state |-> "Error", err |-> Some("io")]

\* Iterator::next for FSEventIter; fail: the next read of the file fails
next(f, it, fail) ==
    IF it.state = "Empty" THEN [iter |-> it, item |-> None, check |-> NoCheck]
    ELSE IF it.state = "Error"
    THEN [iter |-> [it EXCEPT !.err = None],
          item |-> IF "none" \in DOMAIN it.err THEN None ELSE Some(Err(it.err.some)),
          check |-> NoCheck]
    ELSE IF it.remaining = 0 THEN [iter |-> it, item |-> None, check |-> NoCheck]
    ELSE
    LET has == has_next_event(f, [it.file_reader EXCEPT !.fail = fail])
        left == it.remaining - 1
    IN  IF "err" \in DOMAIN has.result
        THEN [iter |-> [it EXCEPT !.file_reader = has.rd, !.remaining = left],
              item |-> Some(has.result), check |-> NoCheck]
        ELSE IF ~has.result.ok
        THEN [iter |-> [it EXCEPT !.file_reader = has.rd, !.remaining = left],
              item |-> None, check |-> NoCheck]
        ELSE LET r == read_event(f, has.rd)
             IN  [iter |-> [it EXCEPT !.file_reader = r.rd, !.remaining = left],
                  item |-> Some(r.result), check |-> r.check]

EventsFileInit ==
    /\ EngineInit /\ preloaded = 0
    /\ file = <<>>
    /\ written = <<>>
    /\ iter = NoIter
    /\ iter_opened = NoIter
    /\ iter_out = <<>>
    /\ length_check = NoCheck
    /\ file_errors = 0
    /\ eventsFileOthersIdle

\* the writer appends the record of the next event of the server's actor
WriteEvent(namespace, data) ==
    /\ Len(written) < MaxRecords
    /\ LET event == OwnedFloEvent(FloEventId(actor_id, Len(written) + 1), namespace, data)
       IN  /\ file' = file \o Record(event)
           /\ written' = Append(written, [event |-> event, offset |-> Len(file)])
    /\ UNCHANGED <<iter, iter_opened, iter_out, length_check, file_errors, eventsFileOthers>>

\* the index of the events file: an entry for each record written
RECURSIVE IndexOfRecords(_)
IndexOfRecords(n) ==
    IF n = 0 THEN {}
    ELSE IndexAdd(IndexOfRecords(n - 1), written[n].event.id, written[n].offset)

EventsIndex == IndexOfRecords(Len(written))

\* the positions a range can start after
RangeStarts == {Zero} \cup {FloEventId(actor_id, n) : n \in 1..MaxRecords}

\* a load_range that begins at the first entry of the index
load_rangeFromFirstEntry(ix, range_start, limit, opens) ==
    IF IndexHasNext(ix, range_start)
    THEN IF opens
         THEN FSEventIterInitialize(IndexNextEntry(ix, Zero).offset, limit)
         ELSE FSEventIterError
    ELSE FSEventIterEmpty

\* FSEventReader::load_range; opens: the events file can be opened
load_range(ix, range_start, limit, opens) ==
    IF IndexHasNext(ix, range_start)
    THEN IF opens
         THEN FSEventIterInitialize(IndexNextEntry(ix, range_start).offset, limit)
         ELSE FSEventIterError
    ELSE FSEventIterEmpty

\* what is kept of a call of load_range
Opened(range_start, limit) ==
    [range_start |-> range_start, limit |-> limit, records |-> Len(written),
     offset |-> IF IndexHasNext(EventsIndex, range_start)
                THEN IndexNextEntry(EventsIndex, range_start).offset ELSE Len(file)]

\* load_range finds an entry and opens a reader at the offset of its record
IterInitialize(range_start, limit) ==
    /\ iter = NoIter
    /\ IndexHasNext(EventsIndex, range_start)
    /\ iter' = load_range(EventsIndex, range_start, limit, TRUE)
    /\ iter_opened' = Opened(range_start, limit)
    /\ UNCHANGED <<file, written, iter_out, length_check, file_errors, eventsFileOthers>>

\* load_range finds no entry after the start
IterEmpty(range_start, limit) ==
    /\ iter = NoIter
    /\ ~IndexHasNext(EventsIndex, range_start)
    /\ iter' = load_range(EventsIndex, range_start, limit, TRUE)
    /\ iter_opened' = Opened(range_start, limit)
    /\ UNCHANGED <<file, written, iter_out, length_check, file_errors, eventsFileOthers>>

\* load_range finds an entry and cannot open the file
IterError(range_start, limit) ==
    /\ iter = NoIter
    /\ IndexHasNext(EventsIndex, range_start)
    /\ iter' = load_range(EventsIndex, range_start, limit, FALSE)
    /\ iter_opened' = Opened(range_start, limit)
    /\ UNCHANGED <<file, written, iter_out, length_check, file_errors, eventsFileOthers>>

\* does the call read the file, so that the read can fail
ReadsFile(it) == it.state = "NonEmpty" /\ it.remaining > 0

IterNext(fail) ==
    /\ iter # NoIter
    /\ Len(iter_out) < MaxIterCalls
    /\ fail => ReadsFile(iter) /\ file_errors < MaxFileErrors
    /\ \E r \in {next(file, iter, fail)} :
        /\ iter' = IF fail THEN [r.iter EXCEPT !.file_reader.fail = FALSE] ELSE r.iter
        /\ iter_out' = Append(iter_out, r.item)
        /\ length_check' = IF r.check.checked THEN r.check ELSE length_check
        /\ file_errors' = IF fail /\ ~r.iter.file_reader.fail
                          THEN file_errors + 1 ELSE file_errors
    /\ UNCHANGED <<file, written, iter_opened, eventsFileOthers>>

EventsFileNext ==
    \/ \E namespace \in FileNamespaces, data \in FileData : WriteEvent(namespace, data)
    \/ \E range_start \in RangeStarts, limit \in 0..MaxIterLimit :
            IterInitialize(range_start, limit)
    \/ \E range_start \in RangeStarts, limit \in 0..MaxIterLimit :
            IterEmpty(range_start, limit)
    \/ \E range_start \in RangeStarts, limit \in 0..MaxIterLimit :
            IterError(range_start, limit)
    \/ \E fail \in BOOLEAN : IterNext(fail)

EventsFileSpec == EventsFileInit /\ [][EventsFileNext]_vars

\* the header of the k-th record of the file, as read_header reads it
HeaderOfRecord(k) == read_header(file, BufReader(written[k].offset, FALSE)).result.ok

\* C24: every record of the file carries as total_size the length of the
\* whole record, magic included (8 + 4 + 8 + 2 + 4 + ns_len + 4 + data_len),
\* and the data length that compute_data_length derives from the header is
\* the data_len stored in the record: for each record as written, and for
\* the two lengths read_event compares when it reads one.
C24_HeaderGivesDataLength ==
    /\ \A k \in 1..Len(written) :
        LET event == written[k].event
        IN  /\ HeaderOfRecord(k).total_size
                 = 8 + 4 + 8 + 2 + 4 + Len(event.namespace) + 4 + Len(event.data)
            /\ HeaderOfRecord(k).namespace_length = Len(event.namespace)
            /\ compute_data_length(HeaderOfRecord(k)) = Len(event.data)
    /\ length_check.checked => length_check.computed = length_check.data_length

IsNone(item) == "none" \in DOMAIN item
IsErr(item) == "some" \in DOMAIN item /\ "err" \in DOMAIN item.some
IsEvent(item) == "some" \in DOMAIN item /\ "ok" \in DOMAIN item.some

\* the calls of next, among the first n, that yielded an item, and an event
Yielded(n) == {i \in 1..n : ~IsNone(iter_out[i])}
YieldedEvents(n) == {i \in 1..n : IsEvent(iter_out[i])}

\* where the record of a yielded event starts in the file
OffsetOf(event) ==
    (CHOOSE k \in 1..Len(written) : written[k].event = event).offset

\* call i of next found the end of the file, yielded a read error, or
\* yielded the last of the events the limit allows
IterFinishedAt(i) ==
    \/ IsNone(iter_out[i])
    \/ IsErr(iter_out[i])
    \/ Cardinality(YieldedEvents(i)) = iter_opened.limit

YieldsAtMostLimit == Cardinality(Yielded(Len(iter_out))) <= iter_opened.limit

NoneAfterFinished ==
    \A i, j \in 1..Len(iter_out) :
        i < j /\ IterFinishedAt(i) => IsNone(iter_out[j])

NeverGoesBack ==
    \A i, j \in YieldedEvents(Len(iter_out)) :
        i < j => /\ iter_opened.offset <= OffsetOf(iter_out[i].some.ok)
                 /\ OffsetOf(iter_out[i].some.ok) < OffsetOf(iter_out[j].some.ok)

\* C25: an iterator created with limit L yields at most L items over its
\* whole life; once a call of next has found the end of the file, yielded a
\* read error or yielded the L-th event, every later call returns None; and
\* the events it yields lie at growing offsets from where it started.
C25_IteratorStopsForGood ==
    iter # NoIter => YieldsAtMostLimit /\ NoneAfterFinished /\ NeverGoesBack

(***************************************************************************)
(* FileSystemEventStore (event_store/mod.rs): an index of bounded size, a  *)
(* cache of the events used last, and the events file.  Event ids are u64  *)
(* numbers here.  The index is described from the required operations of   *)
(* the index; the store and its file reader are the code.                  *)
(***************************************************************************)
MaxEvents == 3          \* the greatest max_events a store is created with
MaxStored == 4          \* store calls over all the lives of a store
MaxRestarts == 1
MaxWriteFailures == 1
MaxShortWrites == 1
\* MAX_CACHED_EVENTS (150), scaled down with max_events
CachedEventsCap == 2

NoStore == [state |-> "None"]
NoCall == [op |-> "none"]

Event(id, data) == [id |-> id, data |-> data]
get_raw_bytes(event) == event.data

Entry(event_id, offset) == [event_id |-> event_id, offset |-> offset]

\* RingIndex::new(1000, max_events)
RingIndex(max_events) == [entries |-> {}, max_entries |-> max_events]

SmallestEntry(entries) == CHOOSE e \in entries : \A f \in entries : e.event_id <= f.event_id

\* RingIndex::add: insert, and when that exceeds the capacity evict and
\* return the entry of the smallest id
RingIndexAdd(ix, entry) ==
    LET added == {e \in ix.entries : e.event_id # entry.event_id} \cup {entry}
    IN  IF Cardinality(added) > ix.max_entries
        THEN [index |-> [ix EXCEPT !.entries = added \ {SmallestEntry(added)}],
              dropped |-> Some(SmallestEntry(added))]
        ELSE [index |-> [ix EXCEPT !.entries = added], dropped |-> None]

\* RingIndex::get_next_entry
get_next_entry(ix, event_id) ==
    LET later == {e \in ix.entries : e.event_id > event_id}
    IN  IF later = {} THEN None ELSE Some(SmallestEntry(later))

\* LruCache<EventId, Event>: the entries, the one used least recently first
KeysOf(lru) == {lru[i].key : i \in 1..Len(lru)}
contains_key(lru, key) == key \in KeysOf(lru)
CacheWithout(lru, key) == SelectSeq(lru, LAMBDA e : e.key # key)
CacheRemove(lru, key) == CacheWithout(lru, key)
LruInsert(lru, key, value) ==
    LET put == Append(CacheWithout(lru, key), [key |-> key, value |-> value])
    IN  IF Len(put) > CachedEventsCap THEN Tail(put) ELSE put
CacheValue(lru, key) ==
    lru[CHOOSE i \in 1..Len(lru) : lru[i].key = key].value
\* get_mut makes the entry the one used last
get_mut(lru, key) == Append(CacheWithout(lru, key), [key |-> key, value |-> CacheValue(lru, key)])

\* EventsFromDisk::next
EventsFromDiskNext == None

\* FileReader::read_from_offset(offset).next()
read_from_offset_next(offset) == EventsFromDiskNext

\* FileSystemEventStore::new and initialize: the loop over the events of
\* the file has no body, and the reader yields no event
FileSystemEventStoreNew(max_events) ==
    [index |-> RingIndex(max_events),
     event_cache |-> <<>>,
     current_file_position |-> 0,
     current_event_id |-> 0]

\* write: what File::write answers for the bytes of the event
WriteOk(n) == [ok |-> n]
WriteErr == [err |-> "io"]

\* EventStore::store
store(s, event, write) ==
    LET event_id == event.id
        added == RingIndexAdd(s.index, Entry(event_id, s.current_file_position))
        event_cache == IF "some" \in DOMAIN added.dropped
                       THEN CacheRemove(s.event_cache, added.dropped.some.event_id)
                       ELSE s.event_cache
        s1 == [s EXCEPT !.current_event_id = event_id,
                        !.index = added.index,
                        !.event_cache = event_cache]
    IN  IF "ok" \in DOMAIN write
        THEN [store |-> [s1 EXCEPT !.current_file_position = @ + Len(get_raw_bytes(event)),
                                   !.event_cache = LruInsert(event_cache, event_id, event)],
              result |-> Ok(event_id), dropped |-> added.dropped]
        ELSE [store |-> s1, result |-> WriteErr, dropped |-> added.dropped]

get_greatest_event_id(s) == s.current_event_id

\* EventStore::get_event_greater_than
get_event_greater_than(s, event_id) ==
    LET next_entry == get_next_entry(s.index, event_id)
    IN  IF "none" \in DOMAIN next_entry THEN [store |-> s, result |-> None]
        ELSE
        LET entry == next_entry.some
        IN  IF contains_key(s.event_cache, entry.event_id)
            THEN [store |-> [s EXCEPT !.event_cache = get_mut(@, entry.event_id)],
                  result |-> Some(CacheValue(s.event_cache, entry.event_id))]
            ELSE
            LET read == read_from_offset_next(entry.offset)
            IN  IF "some" \in DOMAIN read /\ "ok" \in DOMAIN read.some
                THEN [store |-> [s EXCEPT !.event_cache =
                                    LruInsert(@, entry.event_id, read.some.ok)],
                      result |-> Some(read.some.ok)]
                ELSE [store |-> s, result |-> None]

FileStoreInit ==
    /\ EngineInit /\ preloaded = 0
    /\ store_file = <<>>
    /\ fs_store = NoStore
    /\ store_out = NoCall
    /\ store_hist = [stored |-> <<>>, restarts |-> 0, failures |-> 0, short |-> 0,
                     max_events |-> 0, calls |-> 0, since_new |-> 0]
    /\ fileStoreOthersIdle

\* FileSystemEventStore::new over a new directory
StoreCreate(max_events) ==
    /\ fs_store = NoStore
    /\ store_hist.max_events = 0
    /\ fs_store' = FileSystemEventStoreNew(max_events)
    /\ store_out' = [op |-> "new", arg |-> max_events]
    /\ store_hist' = [store_hist EXCEPT !.max_events = max_events]
    /\ UNCHANGED <<store_file, fileStoreOthers>>

\* the store is dropped and created again over the same directory
StoreRestart ==
    /\ fs_store # NoStore
    /\ store_hist.restarts < MaxRestarts
    /\ fs_store' = FileSystemEventStoreNew(store_hist.max_events)
    /\ store_out' = [op |-> "new", arg |-> store_hist.max_events]
    /\ store_hist' = [store_hist EXCEPT !.restarts = @ + 1, !.since_new = 0]
    /\ UNCHANGED <<store_file, fileStoreOthers>>

\* what one write of the bytes can answer: all of them written, some of
\* them written, or an error
WriteOutcomes(bytes) ==
    {WriteOk(Len(bytes))}
        \cup {WriteOk(n) : n \in IF store_hist.short < MaxShortWrites
                                 THEN 1..(Len(bytes) - 1) ELSE {}}
        \cup (IF store_hist.failures < MaxWriteFailures THEN {WriteErr} ELSE {})

\* the server stores the event after the greatest one of the store
StoreEvent(data, write) ==
    /\ fs_store # NoStore
    /\ store_hist.calls < MaxStored
    /\ LET event == Event(get_greatest_event_id(fs_store) + 1, data)
       IN  /\ write \in WriteOutcomes(get_raw_bytes(event))
           /\ \E r \in {store(fs_store, event, write)} :
                /\ fs_store' = r.store
                /\ store_out' = [op |-> "store", arg |-> event, result |-> r.result,
                                 dropped |-> r.dropped, before |-> fs_store]
           /\ store_file' =
                IF "ok" \in DOMAIN write
                THEN Append(store_file, [event_id |-> event.id,
                                         bytes |-> Take(get_raw_bytes(event), write.ok)])
                ELSE store_file
           /\ store_hist' =
                [store_hist EXCEPT
                    !.calls = @ + 1,
                    !.since_new = @ + 1,
                    !.stored = IF "ok" \in DOMAIN write THEN Append(@, event) ELSE @,
                    !.short = IF "ok" \in DOMAIN write /\ write.ok < Len(get_raw_bytes(event))
                              THEN @ + 1 ELSE @,
                    !.failures = IF "err" \in DOMAIN write THEN @ + 1 ELSE @]
    /\ UNCHANGED fileStoreOthers

GetEventGreaterThan(event_id) ==
    /\ fs_store # NoStore
    /\ \E r \in {get_event_greater_than(fs_store, event_id)} :
        /\ fs_store' = r.store
        /\ store_out' = [op |-> "get", arg |-> event_id, result |-> r.result,
                         before |-> fs_store]
    /\ UNCHANGED <<store_file, store_hist, fileStoreOthers>>

FileStoreNext ==
    \/ \E max_events \in 1..MaxEvents : StoreCreate(max_events)
    \/ StoreRestart
    \/ \E data \in DataValues, write \in {WriteOk(n) : n \in 1..2} \cup {WriteErr} :
            StoreEvent(data, write)
    \/ \E event_id \in 0..MaxStored : GetEventGreaterThan(event_id)

FileStoreSpec == FileStoreInit /\ [][FileStoreNext]_vars

\* every store call so far was made on this store and wrote its event whole
StoredWithoutFault ==
    store_hist.restarts = 0 /\ store_hist.failures = 0 /\ store_hist.short = 0

IndexWithinCapacity ==
    fs_store # NoStore =>
        Cardinality(fs_store.index.entries) <= fs_store.index.max_entries

\* a store call on a full index evicted the entry of the smallest id, and
\* the cache does not hold that id any more
StoreDropsSmallest ==
    store_out.op = "store" =>
        LET before == store_out.before.index
            full == Cardinality(before.entries) = before.max_entries
        IN  /\ full <=> "some" \in DOMAIN store_out.dropped
            /\ full =>
                /\ \A e \in before.entries :
                        store_out.dropped.some.event_id <= e.event_id
                /\ store_out.dropped.some \notin fs_store.index.entries
                /\ ~contains_key(fs_store.event_cache, store_out.dropped.some.event_id)

\* with max_events + k events stored, the answer to get_event_greater_than(0)
\* is the event of the (k+1)-th smallest id
GetAfterOverflow ==
    /\ store_out.op = "get" /\ store_out.arg = 0
    /\ StoredWithoutFault
    /\ Len(store_hist.stored) >= store_hist.max_events
    => store_out.result
         = Some(store_hist.stored[Len(store_hist.stored) - store_hist.max_events + 1])

\* C26: the index never holds more entries than its capacity; a store call
\* on a full index evicts the entry of the smallest event id and drops that
\* id from the event cache; and once max_events + k events are stored,
\* get_event_greater_than(0) answers with the event of the (k+1)-th
\* smallest id.
C26_FullIndexDropsSmallest ==
    IndexWithinCapacity /\ StoreDropsSmallest /\ GetAfterOverflow

\* the store was created again over a file of whole records and has taken
\* no store call since
RestartedOverEvents ==
    /\ store_hist.restarts > 0 /\ store_hist.since_new = 0
    /\ store_hist.failures = 0 /\ store_hist.short = 0
    /\ store_hist.stored # <<>>

\* where the record of the k-th stored event starts in the file
RECURSIVE RecordStart(_)
RecordStart(k) ==
    IF k = 1 THEN 0
    ELSE RecordStart(k - 1) + Len(get_raw_bytes(store_hist.stored[k - 1]))

\* the id of the stored event before the k-th, 0 before the first
IdBefore(k) == IF k = 1 THEN 0 ELSE store_hist.stored[k - 1].id

\* C27: a store created over a directory whose file holds events has its
\* state rebuilt from the file: the greatest event id is the last persisted
\* one, each persisted event has an index entry at the offset of its record,
\* and get_event_greater_than answers with each of them (the first for 0,
\* the next one for the id of each).
C27_RestartRebuildsFromFile ==
    RestartedOverEvents =>
        /\ get_greatest_event_id(fs_store)
             = store_hist.stored[Len(store_hist.stored)].id
        /\ \A k \in 1..Len(store_hist.stored) :
             /\ (k > Len(store_hist.stored) - store_hist.max_events =>
                    Entry(store_hist.stored[k].id, RecordStart(k))
                        \in fs_store.index.entries)
             /\ (store_hist.max_events >= Len(store_hist.stored) =>
                    get_event_greater_than(fs_store, IdBefore(k)).result
                        = Some(store_hist.stored[k]))
        /\ store_out.op = "get" /\ store_hist.max_events >= Len(store_hist.stored) =>
             \E k \in 1..Len(store_hist.stored) :
                store_out.result = Some(store_hist.stored[k])

\* the step is a cache insert: the consumer manager takes an EventPersisted
InsertsIntoCache ==
    /\ consInbox # <<>>
    /\ Head(consInbox).type = "EventPersisted"
    /\ consInbox' = Tail(consInbox)

Inserted ==
    LET waiting == Cardinality({i \in 1..Len(consInbox) :
                                    consInbox[i].type = "EventPersisted"})
    IN  [i \in 1..(forwarded - waiting) |-> StoredProduces[i].event]

WithinBounds(es) == Len(es) <= MaxCachedEvents /\ CacheBytes(es) <= MaxCacheBytes

\* the last n of the events inserted
LastInserted(n) == SubSeq(Inserted, Len(Inserted) - n + 1, Len(Inserted))

ChoosesCachePath(c) ==
    /\ consAlive
    /\ consInbox # <<>>
    /\ Head(consInbox).type \in {"StartConsuming", "ContinueConsuming"}
    /\ Head(consInbox).connection_id = c
    /\ consInbox' = Tail(consInbox)
    /\ consumers[c] # NoClient
    /\ ~ServeFromDisk(consumers[c].position, cache.last_evicted_id)

\* C30: whenever the consumer manager chooses the cache path for a client
\* at position start, every persisted event (every record of the log) with
\* an id greater than start is resident in the cache at that moment; also
\* right after a restart, with events in the log and an empty cache.
C30_CachePathHoldsEveryLaterEvent ==
    [][ \A c \in Conns :
            ChoosesCachePath(c) =>
                \A i \in 1..Len(log) :
                    IdLess(consumers[c].position, log[i].id) =>
                        \E e \in Range(cache.entries) : e.id = log[i].id
      ]_vars

\* a reader was opened at the offset of a record; since then no read of the
\* file has failed and the file has not grown
ReadsAFixedFile ==
    /\ iter # NoIter /\ iter.state = "NonEmpty"
    /\ file_errors = 0
    /\ Len(written) = iter_opened.records

\* the events of the records from the reader's start on, in file order
RecordsFromStart ==
    LET from == SelectSeq(written, LAMBDA w : w.offset >= iter_opened.offset)
    IN  [k \in 1..Len(from) |-> from[k].event]

\* the items the calls of next yielded, without the answers None
ItemsOut == SelectSeq(iter_out, LAMBDA item : ~IsNone(item))

YieldsRecordsInFileOrder ==
    /\ Len(ItemsOut) <= Len(RecordsFromStart)
    /\ \A k \in 1..Len(ItemsOut) : ItemsOut[k] = Some(Ok(RecordsFromStart[k]))

NoneOnlyAtEndOfFile ==
    iter_opened.limit >= Len(RecordsFromStart) =>
        \A i \in 1..Len(iter_out) :
            IsNone(iter_out[i]) =>
                Cardinality(YieldedEvents(i)) = Len(RecordsFromStart)

\* C31: a reader started at the offset of a record yields that record and
\* the records after it in file order, and with a limit that covers them
\* it answers None only at the end of the file, after the last of them,
\* wherever the records fall in the reader's buffer.
C31_ReaderYieldsEveryRecord ==
    ReadsAFixedFile => YieldsRecordsInFileOrder /\ NoneOnlyAtEndOfFile

\* the records that were indexed when load_range was called and whose id is
\* greater than the start of the range
RecordsAfterStart ==
    {k \in 1..iter_opened.records : IdLess(iter_opened.range_start, written[k].event.id)}

\* the one of them with the smallest id
FirstAfterStart ==
    written[CHOOSE k \in RecordsAfterStart :
                \A j \in RecordsAfterStart : IdLeq(written[k].event.id, written[j].event.id)]

\* the first call of next that yielded an event
FirstEventCall ==
    CHOOSE i \in YieldedEvents(Len(iter_out)) : \A j \in YieldedEvents(Len(iter_out)) : i <= j

RECURSIVE WriteStart(_)
WriteStart(k) ==
    IF k = 1 THEN 0 ELSE WriteStart(k - 1) + Len(store_file[k - 1].bytes)

IndexOffsetsAreRecordStarts ==
    \A entry \in fs_store.index.entries :
        \E k \in 1..Len(store_file) :
            /\ store_file[k].event_id = entry.event_id
            /\ entry.offset = WriteStart(k)

FailedStoreChangesNothing ==
    store_out.op = "store" /\ "err" \in DOMAIN store_out.result =>
        /\ fs_store.index = store_out.before.index
        /\ fs_store.current_file_position = store_out.before.current_file_position
        /\ get_greatest_event_id(fs_store) = get_greatest_event_id(store_out.before)

\* C33: after any sequence of store calls on one store, whether their
\* writes succeed, fail or write only a part of the record, the offset of
\* every index entry is the byte offset at which the record of that event
\* starts in the events file, and a store call whose write failed has left
\* the index, the current file position and the greatest event id as they
\* were before the call.
C33_IndexOffsetsAndFailedStores ==
    fs_store # NoStore /\ store_hist.restarts = 0 =>
        IndexOffsetsAreRecordStarts /\ FailedStoreChangesNothing

\* the bytes a stream has read and not yet parsed
BufferedBytes(s) == SubSeq(s.buffer, s.buffer_pos + 1, s.buffer_pos + s.filled_bytes)

\* the requests each valid input encodes
Framing ==
    [bytes \in ValidInputs |->
        CHOOSE ms \in SeqsUpTo(WireRequests, MaxWireFrames) : EncodeAll(ms) = bytes]
IsFrames(bytes) == bytes \in ValidInputs
FramesOf(bytes) == Framing[bytes]

\* the item the stream of c yields for a request
AsYielded(c, m) ==
    IF m.type = "Produce" THEN Produce(c, m.op_id, m.event_data) ELSE m

\* the last read of c's stream delivered two or more whole frames
ReadSeveralFrames(c) ==
    /\ streams[c] # NoStream
    /\ IsFrames(streams[c].buffer)
    /\ Len(FramesOf(streams[c].buffer)) >= 2

\* a poll of c's stream while frames of that read are buffered yields the
\* first of them and reads nothing
YieldsNextBufferedFrame(c) ==
    (streams'[c] # streams[c] /\ ReadSeveralFrames(c) /\ streams[c].filled_bytes > 0) =>
        /\ IsFrames(BufferedBytes(streams[c]))
        /\ nread'[c] = nread[c]
        /\ streams'[c] # NoStream
        /\ decoded'[c] = Append(decoded[c],
                                AsYielded(c, Head(FramesOf(BufferedBytes(streams[c])))))
        /\ BufferedBytes(streams'[c])
                = EncodeAll(Tail(FramesOf(BufferedBytes(streams[c]))))

\* a poll after the last of them reads; when the read returns 0 bytes the
\* stream ends and yields nothing more
EndsOnEmptyRead(c) ==
    (/\ streams'[c] # streams[c] /\ stream_end'[c] # "Err"
     /\ ReadSeveralFrames(c) /\ streams[c].filled_bytes = 0
     /\ nread[c] = Len(sent[c])) =>
        /\ stream_end'[c] = "EndOfStream"
        /\ streams'[c] = NoStream
        /\ decoded'[c] = decoded[c]

\* C34: when one read delivered several whole frames, every poll that
\* follows yields the next of the frames, in the order of their bytes,
\* without reading from the socket while buffered bytes remain, and after
\* the last frame a read of 0 bytes makes the stream yield its end.
C34_BufferedFramesOnePerPoll ==
    [][\A c \in Conns : YieldsNextBufferedFrame(c) /\ EndsOnEmptyRead(c)]_vars

\* one read delivered a Produce and a StartConsuming, two polls have yielded
\* them in that order, and the client has nothing more to send
C34_TwoFramesFromOneRead ==
    \E c \in connected :
        /\ ReadSeveralFrames(c)
        /\ streams[c].buffer = sent[c] /\ nread[c] = Len(sent[c])
        /\ streams[c].filled_bytes = 0
        /\ Len(decoded[c]) = 2
        /\ decoded[c][1].type = "Produce" /\ decoded[c][2].type = "StartConsuming"
        /\ decoded[c] = [i \in 1..2 |-> AsYielded(c, FramesOf(sent[c])[i])]

WouldBlock == [kind |-> "WouldBlock"]

\* C35: when the stream has to read and the read would block, poll returns
\* NotReady, yields no message, does not call the parser and leaves the
\* stream as it was: buffer position, filled byte count and the event in
\* progress; whatever the next read answers, the poll after it does what it
\* would have done in place of the blocked one.
C35_WouldBlockLeavesStream ==
    \A c \in connected :
        (streams[c] # NoStream /\ requires_read(streams[c])) =>
            /\ poll(streams[c], WouldBlock)
                    = [stream |-> streams[c], result |-> NotReady, parsed |-> "none"]
            /\ \A read \in ReadOutcomes(c) :
                    poll(poll(streams[c], WouldBlock).stream, read) = poll(streams[c], read)

\* a stream that holds a part of a produce body and has to read for the rest
C35_BlockedInsideABody ==
    \E c \in connected :
        /\ streams[c] # NoStream /\ requires_read(streams[c])
        /\ streams[c].state = "ReadEvent" /\ streams[c].event.position > 0
        /\ streams[c].buffer_pos > 0
        /\ WouldBlock \in ReadOutcomes(c)
        /\ poll(streams[c], WouldBlock).result = NotReady

\* C36: event_is_greater(id) answers true exactly when id.event_counter is
\* strictly greater than the counter the map records for id.actor, an actor
\* without an entry counting as 0: false for an equal or a lower counter,
\* true for every counter from 1 on of an actor without an entry; the call
\* leaves the map as it was.
C36_GreaterThanRecordedCounter ==
    map_call.op = "event_is_greater" =>
        LET id == map_call.event_id
        IN  /\ id.actor \in DOMAIN map_call.before =>
                    (map_call.returned <=> id.event_counter > map_call.before[id.actor])
            /\ id.actor \notin DOMAIN map_call.before =>
                    (map_call.returned <=> id.event_counter >= 1)
            /\ id_map = map_call.before

\* the call was made with the very counter the map records for the actor,
\* which is not 0, and answered false
C36_EqualCounterIsNotGreater ==
    /\ map_call.op = "event_is_greater"
    /\ map_call.event_id.actor \in DOMAIN map_call.before
    /\ map_call.before[map_call.event_id.actor] = map_call.event_id.event_counter
    /\ map_call.event_id.event_counter > 0
    /\ ~map_call.returned

WholeFrames ==
    [bytes \in TruncatedInputs |->
        CHOOSE ms \in SeqsUpTo(WireRequests, MaxWireFrames - 1) :
            \E k \in 0..1 : Truncated(ms, k) = bytes]

EmptyRead == [kind |-> "Ok", bytes |-> <<>>]

\* C38: when the client's bytes end inside a produce body, the stream yields
\* the requests of the whole frames before it and nothing else, so no Produce
\* for the cut event reaches the engine; the read of 0 bytes that finds the
\* input ended, with the body partly received, ends the stream.
C38_CutBodyIsNeverProduced ==
    \A c \in connected :
        sent[c] \in TruncatedInputs =>
            /\ IsPrefix(decoded[c],
                        [i \in 1..Len(WholeFrames[sent[c]]) |->
                            AsYielded(c, WholeFrames[sent[c]][i])])
            /\ \A i \in 1..Len(decoded[c]) :
                    decoded[c][i].type = "Produce" => decoded[c][i].op_id # 2
            /\ \A i \in 1..Len(prodInbox) :
                    (prodInbox[i].type = "Produce" /\ prodInbox[i].connection_id = c)
                        => prodInbox[i].op_id # 2
            /\ (streams[c] # NoStream /\ streams[c].state = "ReadEvent"
                    /\ nread[c] = Len(sent[c])) =>
                    /\ poll(streams[c], EmptyRead).result = ReadyNone
                    /\ EmptyRead \in ReadOutcomes(c)

\* a stream that had read one of the two bytes of a produce body, after a
\* whole frame, when the read of 0 bytes ended it
C38_EndedInsideABody ==
    \E c \in connected :
        /\ sent[c] \in TruncatedInputs
        /\ Len(sent[c]) > TagBytes + 2 * U32Bytes + 1
        /\ sent[c][Len(sent[c])] = 8
        /\ nread[c] = Len(sent[c])
        /\ stream_end[c] = "EndOfStream" /\ ~parse_failed[c]
        /\ Len(decoded[c]) = 1

(***************************************************************************)
(* The protocol's MessageWriter (protocol/mod.rs): one message written to  *)
(* a destination over several calls of write.                              *)
(***************************************************************************)
MaxWriteCalls == 3
MaxAnswers == 4
MaxWriterErrors == 2
BUFFER_LENGTH == 8 * 1024

NoWriter == [state |-> "None"]

ProduceEventMessage(op_id, data) == [type |-> "ProduceEvent", op_id |-> op_id, data |-> data]

\* the messages written: events with and without a body, and a message that
\* has no body at all
WriterMessages ==
    {ProduceEventMessage(1, <<8, 9>>), ProduceEventMessage(1, <<>>),
     StartConsuming(MaxLimit)}

\* ProtocolMessage::serialize: the header of the message's frame
serialize(message) ==
    IF message.type = "ProduceEvent"
    THEN FLO_PRO \o BigEndian(message.op_id, U32Bytes)
                 \o BigEndian(Len(message.data), U32Bytes)
    ELSE ConsumeFrame(message.limit)

\* ProtocolMessage::get_body_mut
get_body_mut(message) ==
    IF message.type = "ProduceEvent" THEN Some(message.data) ELSE None

\* what one dest.write(buf) can answer: Ok(n) of a destination that takes
\* at most n bytes now, ErrorKind::Interrupted, or another error
Accepts(n) == [kind |-> "Ok", n |-> n]
Interrupted == [kind |-> "Interrupted"]
OtherError == [kind |-> "Err"]
WriteAnswers == {Accepts(n) : n \in {0, 1, 2, BUFFER_LENGTH}} \cup {Interrupted, OtherError}

\* Write::write_all over the answers of dest.write: the bytes delivered, the
\* answers not asked for, and the result ("Running" when the answers end
\* before the call does)
RECURSIVE write_all(_, _)
write_all(buf, answers) ==
    IF buf = <<>> THEN [delivered |-> <<>>, rest |-> answers, result |-> "Ok"]
    ELSE IF answers = <<>> THEN [delivered |-> <<>>, rest |-> <<>>, result |-> "Running"]
    ELSE LET a == Head(answers)
         IN  IF a.kind = "Ok" /\ a.n = 0
             THEN [delivered |-> <<>>, rest |-> Tail(answers), result |-> "Err"]
             ELSE IF a.kind = "Ok"
             THEN [write_all(Drop(buf, Min(a.n, Len(buf))), Tail(answers))
                      EXCEPT !.delivered = Take(buf, a.n) \o @]
             ELSE IF a.kind = "Interrupted" THEN write_all(buf, Tail(answers))
             ELSE [delivered |-> <<>>, rest |-> Tail(answers), result |-> "Err"]

\* the loop of write over the body
RECURSIVE write_body(_, _, _)
write_body(body, body_position, answers) ==
    IF ~(body_position < Len(body))
    THEN [delivered |-> <<>>, body_position |-> body_position, rest |-> answers,
          result |-> "Ok"]
    ELSE IF answers = <<>>
    THEN [delivered |-> <<>>, body_position |-> body_position, rest |-> <<>>,
          result |-> "Running"]
    ELSE LET a == Head(answers)
             to_write == Drop(body, body_position)
         IN  IF a.kind = "Ok"
             THEN [write_body(body, body_position + Min(a.n, Len(to_write)), Tail(answers))
                      EXCEPT !.delivered = Take(to_write, a.n) \o @]
             ELSE IF a.kind = "Interrupted"
             THEN write_body(body, body_position, Tail(answers))
             ELSE [delivered |-> <<>>, body_position |-> body_position,
                   rest |-> Tail(answers), result |-> "Err"]

\* MessageWriter::new
MessageWriterNew(message) ==
    [message |-> message, body_position |-> 0, header_written |-> FALSE]

\* MessageWriter::write over the answers of dest.write
write(w, answers) ==
    LET header == IF w.header_written THEN [delivered |-> <<>>, rest |-> answers,
                                            result |-> "Ok"]
                  ELSE write_all(serialize(w.message), answers)
    IN  IF header.result # "Ok"
        THEN [writer |-> w, delivered |-> header.delivered, rest |-> header.rest,
              result |-> header.result]
        ELSE LET w1 == [w EXCEPT !.header_written = TRUE]
                 body == get_body_mut(w.message)
             IN  IF "none" \in DOMAIN body
                 THEN [writer |-> w1, delivered |-> header.delivered,
                       rest |-> header.rest, result |-> "Ok"]
                 ELSE LET b == write_body(body.some, w1.body_position, header.rest)
                      IN  [writer |-> [w1 EXCEPT !.body_position = b.body_position],
                           delivered |-> header.delivered \o b.delivered,
                           rest |-> b.rest, result |-> b.result]

MessageWriterInit ==
    /\ EngineInit /\ preloaded = 0
    /\ msg_writer = NoWriter
    /\ dest = <<>>
    /\ writer_hist = [calls |-> 0, errors |-> 0, last |-> "none", header_cut |-> FALSE]
    /\ messageWriterOthersIdle

WriterNew(message) ==
    /\ msg_writer = NoWriter
    /\ msg_writer' = MessageWriterNew(message)
    /\ UNCHANGED <<dest, writer_hist, messageWriterOthers>>

\* one call of write, with the answers dest.write gives during it
WriterWrite(answers) ==
    /\ msg_writer # NoWriter
    /\ writer_hist.calls < MaxWriteCalls
    /\ \E r \in {write(msg_writer, answers)} :
        /\ r.result \in {"Ok", "Err"}
        /\ r.rest = <<>>
        /\ r.result = "Err" => writer_hist.errors < MaxWriterErrors
        /\ msg_writer' = r.writer
        /\ dest' = dest \o r.delivered
        /\ writer_hist' =
              [calls |-> writer_hist.calls + 1,
               errors |-> writer_hist.errors + (IF r.result = "Err" THEN 1 ELSE 0),
               last |-> r.result,
               header_cut |-> \/ writer_hist.header_cut
                              \/ (~r.writer.header_written /\ r.delivered # <<>>)]
    /\ UNCHANGED messageWriterOthers

MessageWriterNext ==
    \/ \E message \in WriterMessages : WriterNew(message)
    \/ \E answers \in SeqsUpTo(WriteAnswers, MaxAnswers) : WriterWrite(answers)

MessageWriterSpec == MessageWriterInit /\ [][MessageWriterNext]_vars

\* the frame of the writer's message: its header, then its body
WholeMessage ==
    serialize(msg_writer.message)
        \o (IF "some" \in DOMAIN get_body_mut(msg_writer.message)
            THEN get_body_mut(msg_writer.message).some ELSE <<>>)

\* C39: once a call of write on a MessageWriter has returned Ok, whatever
\* the calls before it did (failed part-way with an I/O error, wrote in
\* short pieces, were interrupted), the destination has received the
\* header of the message followed by its body, in order, every byte once.
C39_DestinationHoldsTheMessageOnce ==
    (msg_writer # NoWriter /\ writer_hist.last = "Ok") => dest = WholeMessage

\* a step leaves an inbox as it is, appends to it, or takes its head (and
\* may append in the same step): nothing is taken from behind the head and
\* nothing is reordered
InReceiptOrder(inbox, after) ==
    \/ IsPrefix(inbox, after)
    \/ inbox # <<>> /\ IsPrefix(Tail(inbox), after)

====
